---- MODULE Spec2Model ----
(***************************************************************************)
(* The swarm coordinator of ai-council-system (swarm/orchestrator/         *)
(* coordinator.py): the worker pool, the active-assembly registry, the     *)
(* execution history, role assignment and workflow execution.              *)
(*                                                                         *)
(* execute_assembly is a coroutine.  Its only suspension points are the    *)
(* asyncio.sleep of _execute_step and the asyncio.gather join of the       *)
(* parallel mode (_assign_roles, _collect_contributions contain no await   *)
(* that suspends), so each action below is one run of the event loop from  *)
(* one suspension point to the next.                                       *)
(*                                                                         *)
(* The result aggregator (swarm/orchestrator/result_aggregator.py) is a    *)
(* separate, stateless object: its aggregate and validate_result calls are *)
(* modelled further down, with specifications of their own.  So are the    *)
(* capability matcher, the role loader (swarm/roles) and the assembly      *)
(* loader (swarm/assemblies).                                              *)
(***************************************************************************)
EXTENDS Integers, Sequences, FiniteSets, TLC

VARIABLES
    agents,             \* Agent objects' mutable fields: status, current_role
    available_agents,   \* SwarmCoordinator.available_agents (list of Agent objects)
    active_assemblies,  \* SwarmCoordinator.active_assemblies (task id -> Assembly)
    execution_history,  \* SwarmCoordinator.execution_history (list of AssemblyResult)
    execs,              \* the execute_assembly coroutines: position and locals
    aggregation,        \* the ResultAggregator.aggregate call: arguments and result
    validation,         \* the ResultAggregator.validate_result call: arguments and result
    set_order,          \* the order in which this process iterates a set of keys
    matching,           \* the CapabilityMatcher.calculate_match_score call
    substitution,       \* the CapabilityMatcher.can_substitute call
    tree,               \* the RoleLoader.get_role_dependency_tree call: position and locals
    role_loader,        \* the RoleLoader: its tables and the position of its reload
    assembly_loader     \* the AssemblyLoader: its table and the position of its reload

coordinator_vars ==
    <<agents, available_agents, active_assemblies, execution_history, execs>>

aggregator_vars == <<aggregation, validation, set_order>>

matcher_vars == <<matching, substitution>>

loader_vars == <<tree, role_loader, assembly_loader>>

roles_vars == <<matcher_vars, loader_vars>>

vars == <<coordinator_vars, aggregator_vars, roles_vars>>

(***************************************************************************)
(* Bounds of the model.                                                    *)
(***************************************************************************)
MaxRoles == 2       \* longest role list of an assembly (SpecAssign)
MaxSteps == 2       \* longest step list of a workflow (SpecExec)

None == "None"

Range(s) == {s[i] : i \in 1..Len(s)}

Min(a, b) == IF a < b THEN a ELSE b

RECURSIVE SeqsUpTo(_, _)
SeqsUpTo(S, n) ==
    IF n = 0 THEN {<<>>}
    ELSE LET shorter == SeqsUpTo(S, n - 1)
         IN  shorter \cup {Append(s, x) : s \in {t \in shorter : Len(t) = n - 1}, x \in S}

(***************************************************************************)
(* Python dicts: functions on their key set.                               *)
(***************************************************************************)
EmptyDict == [k \in {} |-> None]

DictSet(d, k, v) == [x \in (DOMAIN d) \cup {k} |-> IF x = k THEN v ELSE d[x]]

DictUpdate(d, other) ==
    [x \in (DOMAIN d) \cup (DOMAIN other) |-> IF x \in DOMAIN other THEN other[x] ELSE d[x]]

DictDel(d, k) == [x \in (DOMAIN d) \ {k} |-> d[x]]

(***************************************************************************)
(* Role: name and ordered capability list (responsibilities and            *)
(* dependencies are never read by the coordinator).                        *)
(***************************************************************************)
Role(name, capabilities) == [name |-> name, capabilities |-> capabilities]

writer    == Role("writer", <<"writing">>)
coder     == Role("coder", <<"coding">>)
helper    == Role("helper", <<>>)
lead      == Role("lead", <<"writing", "coding">>)
architect == Role("architect", <<"coding", "review", "testing", "writing">>)

RoleCatalog == {writer, coder, helper, lead, architect}

RoleNames == {r.name : r \in RoleCatalog}

(***************************************************************************)
(* Agent objects.  agent_id, name and capabilities are set at construction *)
(* and never written by the coordinator; status and current_role are the   *)
(* mutable fields, kept in the variable agents.  o4 is a second Agent      *)
(* object constructed with the same identifier and capabilities as o1.     *)
(***************************************************************************)
AgentObjs == {"o1", "o2", "o3", "o4"}

Agent ==
    [o1 |-> [agent_id |-> "a1", capabilities |-> <<"coding">>],
     o2 |-> [agent_id |-> "a2", capabilities |-> <<"writing", "coding">>],
     o3 |-> [agent_id |-> "a3", capabilities |-> <<"coding", "review", "testing">>],
     o4 |-> [agent_id |-> "a1", capabilities |-> <<"coding">>]]

AgentIds == {Agent[o].agent_id : o \in AgentObjs}

NewAgentFields == [status |-> "available", current_role |-> None]

\* The dataclass-generated Agent.__eq__: field-wise comparison (list.remove and
\* the "in" operator use it, after the identity test).
AgentEq(ags, x, y) ==
    \/ x = y
    \/ /\ Agent[x] = Agent[y]
       /\ ags[x] = ags[y]

\* Agent.can_perform_role
can_perform_role(agent, role) ==
    \A i \in 1..Min(3, Len(role.capabilities)) :
        role.capabilities[i] \in Range(Agent[agent].capabilities)

\* Agent.assign_role, as the new fields of all agents
assign_role(ags, agent, role) ==
    IF can_perform_role(agent, role)
    THEN [ags EXCEPT ![agent] = [status |-> "assigned", current_role |-> role.name]]
    ELSE ags

\* len(set(agent.capabilities) & set(role.capabilities))
OverlapScore(agent, role) ==
    Cardinality(Range(Agent[agent].capabilities) \cap Range(role.capabilities))

\* ScanAgents with ">=" for ">": the last of the best agents wins a tie.
RECURSIVE ScanAgentsLastWins(_, _, _, _, _)
ScanAgentsLastWins(role, available, i, best_agent, best_score) ==
    IF i > Len(available) THEN best_agent
    ELSE LET agent == available[i]
         IN  IF can_perform_role(agent, role) /\ OverlapScore(agent, role) >= best_score
             THEN ScanAgentsLastWins(role, available, i + 1, agent,
                                     OverlapScore(agent, role))
             ELSE ScanAgentsLastWins(role, available, i + 1, best_agent, best_score)

\* The inner loop of _assign_roles: the scan of the still available agents.
RECURSIVE ScanAgents(_, _, _, _, _)
ScanAgents(role, available, i, best_agent, best_score) ==
    IF i > Len(available) THEN best_agent
    ELSE LET agent == available[i]
         IN  IF can_perform_role(agent, role) /\ OverlapScore(agent, role) > best_score
             THEN ScanAgents(role, available, i + 1, agent, OverlapScore(agent, role))
             ELSE ScanAgents(role, available, i + 1, best_agent, best_score)

\* ListRemove without the removal: the chosen agent stays available.
ListRemoveNothing(ags, list, x) == list

\* list.remove(x): drops the first element equal to x.
ListRemove(ags, list, x) ==
    LET hits == {i \in 1..Len(list) : AgentEq(ags, list[i], x)}
    IN  IF hits = {} THEN list
        ELSE LET first == CHOOSE i \in hits : \A j \in hits : i <= j
             IN  SubSeq(list, 1, first - 1) \o SubSeq(list, first + 1, Len(list))

\* The outer loop of _assign_roles, from role i on.
RECURSIVE AssignLoop(_, _, _, _, _)
AssignLoop(roles, i, available, assignments, ags) ==
    IF i > Len(roles) THEN [assignments |-> assignments, agents |-> ags]
    ELSE LET role == roles[i]
             best_agent == ScanAgents(role, available, 1, None, 0)
             assigned == assign_role(ags, best_agent, role)
         IN  IF best_agent # None
             THEN AssignLoop(roles, i + 1, ListRemove(assigned, available, best_agent),
                             DictSet(assignments, role.name, best_agent), assigned)
             ELSE AssignLoop(roles, i + 1, available, assignments, ags)

\* SwarmCoordinator._assign_roles: the returned mapping and the agents' new fields.
_assign_roles(roles, pool, ags) == AssignLoop(roles, 1, pool, EmptyDict, ags)

(***************************************************************************)
(* Workflow steps.  A step is a dict with the keys "role" and "action";    *)
(* _execute_step is a placeholder that cannot fail on a dict, so the only  *)
(* step failure the code has is a step that is not a dict: step.get raises *)
(* AttributeError before the sleep.                                        *)
(***************************************************************************)
Step(role, action) == [is_dict |-> TRUE, role |-> role, action |-> action]

NotADict == [is_dict |-> FALSE, role |-> None, action |-> None]

ErrNoRoles == "Failed to assign all required roles"

ErrStep == "'str' object has no attribute 'get'"

\* step.get("role") raises on a step that is not a dict
StepRaises(step) == ~step.is_dict

\* _execute_step: the dict it returns after the sleep, f"{role_name}_{action}"
_execute_step(step, role_assignments, context) ==
    DictSet(EmptyDict, step.role \o "_" \o step.action, "completed")

Workflow(steps, parallel_execution, error_handling) ==
    [steps |-> steps, parallel_execution |-> parallel_execution,
     error_handling |-> error_handling]

Assembly(name, roles, workflow, required_outputs) ==
    [name |-> name, roles |-> roles, workflow |-> workflow,
     success_criteria |-> [required_outputs |-> required_outputs]]

ExecutionContext(task_id) == [task_id |-> task_id]

TaskIds == {"t1", "t2"}

Contexts == {ExecutionContext(t) : t \in TaskIds}

\* mutant of _validate_results: nothing is required
ValidateNothing(outputs, criteria) == TRUE

\* SwarmCoordinator._validate_results (presence of every required output)
_validate_results(outputs, criteria) ==
    \A required \in criteria.required_outputs : required \in DOMAIN outputs

\* SwarmCoordinator._collect_contributions: the keys of the returned dict (one
\* Contribution per agent_id of an assigned agent)
_collect_contributions(role_assignments) ==
    {Agent[role_assignments[r]].agent_id : r \in DOMAIN role_assignments}

AssemblyResult(assembly_name, status, outputs, agent_contributions, error_message) ==
    [assembly_name |-> assembly_name, status |-> status, outputs |-> outputs,
     agent_contributions |-> agent_contributions, error_message |-> error_message]

(***************************************************************************)
(* _execute_workflow, sequential branch: runs from step i until a step     *)
(* suspends in its sleep, the list ends or an exception leaves the loop.   *)
(* calls is the set of steps for which _execute_step was called on the     *)
(* way.                                                                    *)
(***************************************************************************)
\* mutant of Reraises: every policy but "continue" stops the workflow
ReraisesUnlessContinue(workflow) == workflow.error_handling # "continue"

\* if workflow.error_handling == "stop": raise
Reraises(workflow) == workflow.error_handling = "stop"

RECURSIVE SeqRun(_, _, _)
SeqRun(workflow, outputs, i) ==
    IF i > Len(workflow.steps)
    THEN [kind |-> "return", outputs |-> outputs, step |-> 0, error |-> None, calls |-> {},
          writers |-> EmptyDict]
    ELSE IF StepRaises(workflow.steps[i])
         THEN IF Reraises(workflow)
              THEN [kind |-> "raise", outputs |-> outputs, step |-> i, error |-> ErrStep,
                    calls |-> {i}, writers |-> EmptyDict]
              ELSE LET rest == SeqRun(workflow, outputs, i + 1)
                   IN  [rest EXCEPT !.calls = @ \cup {i}]
         ELSE [kind |-> "sleep", outputs |-> outputs, step |-> i, error |-> None,
               calls |-> {i}, writers |-> EmptyDict]

(***************************************************************************)
(* _execute_workflow, parallel branch: the loop over gather's results,     *)
(* from result i on.  A task is [state, exception, result].  writers       *)
(* tells, for each key of the merged map, the step whose result was        *)
(* applied last (kept for the properties; the code has no such map).       *)
(***************************************************************************)
NewTask == [state |-> "created", exception |-> None, result |-> EmptyDict]

\* the keys outputs.update(result) writes, each with the step the result is of
Written(result, i) == [k \in DOMAIN result |-> i]

\* mutant of GatherLoop: the results are merged from the last one to the first
RECURSIVE GatherLoopBackwards(_, _, _, _)
GatherLoopBackwards(workflow, results, outputs, i) ==
    LET j == Len(results) - i + 1
    IN  IF i > Len(results)
        THEN [kind |-> "return", outputs |-> outputs, step |-> 0, error |-> None,
              calls |-> {}, writers |-> EmptyDict]
        ELSE IF results[j].exception # None
             THEN IF workflow.error_handling = "stop"
                  THEN [kind |-> "raise", outputs |-> outputs, step |-> j,
                        error |-> results[j].exception, calls |-> {}, writers |-> EmptyDict]
                  ELSE GatherLoopBackwards(workflow, results, outputs, i + 1)
             ELSE LET rest == GatherLoopBackwards(workflow, results,
                                                  DictUpdate(outputs, results[j].result), i + 1)
                  IN  [rest EXCEPT !.writers = DictUpdate(Written(results[j].result, j), @)]

RECURSIVE GatherLoop(_, _, _, _)
GatherLoop(workflow, results, outputs, i) ==
    IF i > Len(results)
    THEN [kind |-> "return", outputs |-> outputs, step |-> 0, error |-> None, calls |-> {},
          writers |-> EmptyDict]
    ELSE IF results[i].exception # None
         THEN IF workflow.error_handling = "stop"
              THEN [kind |-> "raise", outputs |-> outputs, step |-> i,
                    error |-> results[i].exception, calls |-> {}, writers |-> EmptyDict]
              ELSE GatherLoop(workflow, results, outputs, i + 1)
         ELSE LET rest == GatherLoop(workflow, results,
                                     DictUpdate(outputs, results[i].result), i + 1)
              IN  [rest EXCEPT !.writers = DictUpdate(Written(results[i].result, i), @)]

\* _execute_workflow from its first line to its first suspension
_execute_workflow(workflow) ==
    IF workflow.parallel_execution
    THEN IF workflow.steps = <<>>
         THEN GatherLoop(workflow, <<>>, EmptyDict, 1)
         ELSE [kind |-> "gather", outputs |-> EmptyDict, step |-> 0, error |-> None,
               calls |-> {}, writers |-> EmptyDict]
    ELSE SeqRun(workflow, EmptyDict, 1)

(***************************************************************************)
(* The coroutines.                                                         *)
(***************************************************************************)
Execs == {"e1", "e2"}

NoAssembly == Assembly(None, <<>>, Workflow(<<>>, FALSE, "stop"), {})

NoResult == AssemblyResult(None, "pending", EmptyDict, {}, None)

IdleExec ==
    [pc |-> "idle", assembly |-> NoAssembly, context |-> ExecutionContext(None),
     role_assignments |-> EmptyDict, outputs |-> EmptyDict, step |-> 0,
     tasks |-> <<>>, error |-> None, result |-> NoResult, attempts |-> <<>>,
     writers |-> EmptyDict]

\* No aggregate or validate_result call has been made.
NoCall == [called |-> FALSE]

\* SwarmCoordinator.__init__, with every Agent object as constructed
InitCoordinator ==
    /\ agents = [o \in AgentObjs |-> NewAgentFields]
    /\ available_agents = <<>>
    /\ active_assemblies = EmptyDict
    /\ execution_history = <<>>
    /\ execs = [e \in Execs |-> IdleExec]

\* Cleanup that empties the registry instead of deleting one key.
CleanupAll(registry, context) == EmptyDict

\* the finally clause of execute_assembly
Cleanup(registry, context) ==
    IF context.task_id \in DOMAIN registry THEN DictDel(registry, context.task_id)
    ELSE registry

\* execute_assembly from the workflow's end to its return: contributions,
\* validation, the result, the history, the finally clause
ReturnResult(e, rec, outputs, registry) ==
    LET contributions == _collect_contributions(rec.role_assignments)
        success == _validate_results(outputs, rec.assembly.success_criteria)
        result == AssemblyResult(rec.assembly.name,
                                 IF success THEN "completed" ELSE "failed",
                                 outputs, contributions, None)
    IN  /\ execution_history' = Append(execution_history, result)
        /\ active_assemblies' = Cleanup(registry, rec.context)
        /\ execs' = [execs EXCEPT ![e] =
                        [rec EXCEPT !.pc = "returned", !.outputs = outputs,
                                    !.step = 0, !.result = result]]

\* ReturnFailure that hands the workflow's merged map to the failed result.
ReturnFailureKeepsOutputs(e, rec, outcome, registry) ==
    LET result == AssemblyResult(rec.assembly.name, "failed", outcome.outputs, {},
                                 outcome.error)
    IN  /\ execution_history' = execution_history
        /\ active_assemblies' = Cleanup(registry, rec.context)
        /\ execs' = [execs EXCEPT ![e] =
                        [rec EXCEPT !.pc = "returned", !.outputs = outcome.outputs,
                                    !.step = outcome.step, !.error = outcome.error,
                                    !.result = result]]

\* ReturnFailure without the except clause: the exception leaves execute_assembly.
ReturnFailureRaises(e, rec, outcome, registry) ==
    /\ execution_history' = execution_history
    /\ active_assemblies' = Cleanup(registry, rec.context)
    /\ execs' = [execs EXCEPT ![e] =
                    [rec EXCEPT !.pc = "raised", !.outputs = outcome.outputs,
                                !.step = outcome.step, !.error = outcome.error]]

\* the except clause of execute_assembly, then the finally clause
ReturnFailure(e, rec, outcome, registry) ==
    LET result == AssemblyResult(rec.assembly.name, "failed", EmptyDict, {},
                                 outcome.error)
    IN  /\ execution_history' = execution_history
        /\ active_assemblies' = Cleanup(registry, rec.context)
        /\ execs' = [execs EXCEPT ![e] =
                        [rec EXCEPT !.pc = "returned", !.outputs = outcome.outputs,
                                    !.step = outcome.step, !.error = outcome.error,
                                    !.result = result]]

\* attempts counts the calls of _execute_step for each step of the workflow
\* (kept for the properties; the code has no such counter).
Attempted(attempts, calls) ==
    [i \in DOMAIN attempts |-> IF i \in calls THEN attempts[i] + 1 ELSE attempts[i]]

\* What the coroutine does with the outcome of the segment it just ran.
Proceed(e, called, outcome, registry) ==
    LET rec == [called EXCEPT !.attempts = Attempted(@, outcome.calls),
                              !.writers = DictUpdate(@, outcome.writers)]
    IN  CASE outcome.kind = "return" -> ReturnResult(e, rec, outcome.outputs, registry)
          [] outcome.kind = "raise"  -> ReturnFailure(e, rec, outcome, registry)
          [] outcome.kind = "sleep"  ->
                /\ execs' = [execs EXCEPT ![e] =
                                [rec EXCEPT !.pc = "step", !.outputs = outcome.outputs,
                                            !.step = outcome.step]]
                /\ active_assemblies' = registry
                /\ UNCHANGED execution_history
          [] outcome.kind = "gather" ->
                /\ execs' = [execs EXCEPT ![e] =
                                [rec EXCEPT !.pc = "gather",
                                            !.tasks = [i \in 1..Len(rec.assembly.workflow.steps)
                                                         |-> NewTask]]]
                /\ active_assemblies' = registry
                /\ UNCHANGED execution_history

\* execute_assembly(assembly, context), up to its first suspension
execute_assembly(e, assembly, context) ==
    /\ execs[e].pc = "idle"
    /\ LET registry == DictSet(active_assemblies, context.task_id, assembly)
           assigned == _assign_roles(assembly.roles, available_agents, agents)
           rec == [execs[e] EXCEPT !.assembly = assembly, !.context = context,
                                   !.role_assignments = assigned.assignments,
                                   !.attempts = [i \in 1..Len(assembly.workflow.steps) |-> 0]]
       IN  /\ agents' = assigned.agents
           /\ UNCHANGED <<available_agents, aggregator_vars, roles_vars>>
           /\ IF DOMAIN assigned.assignments = {}
              THEN ReturnFailure(e, rec, [kind |-> "raise", outputs |-> EmptyDict,
                                          step |-> 0, error |-> ErrNoRoles, calls |-> {},
                                          writers |-> EmptyDict],
                                 registry)
              ELSE Proceed(e, rec, _execute_workflow(assembly.workflow), registry)

\* sequential mode: the sleeping step returns, its result is merged, the loop goes on
StepDone(e) ==
    /\ execs[e].pc = "step"
    /\ LET rec == execs[e]
           workflow == rec.assembly.workflow
           result == _execute_step(workflow.steps[rec.step], rec.role_assignments,
                                   rec.context)
       IN  Proceed(e, [rec EXCEPT !.writers = DictUpdate(@, Written(result, rec.step))],
                   SeqRun(workflow, DictUpdate(rec.outputs, result), rec.step + 1),
                   active_assemblies)
    /\ UNCHANGED <<agents, available_agents, aggregator_vars, roles_vars>>

\* parallel mode: task i runs _execute_step up to its sleep, or raises
TaskStart(e, i) ==
    /\ execs[e].pc = "gather"
    /\ i \in 1..Len(execs[e].tasks)
    /\ execs[e].tasks[i].state = "created"
    /\ LET step == execs[e].assembly.workflow.steps[i]
       IN  execs' = [execs EXCEPT ![e].tasks[i] =
                        IF StepRaises(step)
                        THEN [state |-> "done", exception |-> ErrStep, result |-> EmptyDict]
                        ELSE [state |-> "sleeping", exception |-> None,
                              result |-> EmptyDict],
                                  ![e].attempts = Attempted(@, {i})]
    /\ UNCHANGED <<agents, available_agents, active_assemblies, execution_history,
                   aggregator_vars, roles_vars>>

\* parallel mode: task i wakes from its sleep and returns its dict
TaskDone(e, i) ==
    /\ execs[e].pc = "gather"
    /\ i \in 1..Len(execs[e].tasks)
    /\ execs[e].tasks[i].state = "sleeping"
    /\ LET rec == execs[e]
           step == rec.assembly.workflow.steps[i]
       IN  execs' = [execs EXCEPT ![e].tasks[i] =
                        [state |-> "done", exception |-> None,
                         result |-> _execute_step(step, rec.role_assignments,
                                                  rec.context)]]
    /\ UNCHANGED <<agents, available_agents, active_assemblies, execution_history,
                   aggregator_vars, roles_vars>>

\* mutant of GatherDone: gather without return_exceptions, which hands the first
\* exception over as soon as a task has raised
GatherDoneOnFirstError(e) ==
    /\ execs[e].pc = "gather"
    /\ \/ \A i \in 1..Len(execs[e].tasks) : execs[e].tasks[i].state = "done"
       \/ \E i \in 1..Len(execs[e].tasks) : execs[e].tasks[i].exception # None
    /\ LET rec == execs[e]
       IN  Proceed(e, rec, GatherLoop(rec.assembly.workflow, rec.tasks, EmptyDict, 1),
                   active_assemblies)
    /\ UNCHANGED <<agents, available_agents, aggregator_vars, roles_vars>>

\* parallel mode: every task is done, gather hands over the results
GatherDone(e) ==
    /\ execs[e].pc = "gather"
    /\ \A i \in 1..Len(execs[e].tasks) : execs[e].tasks[i].state = "done"
    /\ LET rec == execs[e]
       IN  Proceed(e, rec, GatherLoop(rec.assembly.workflow, rec.tasks, EmptyDict, 1),
                   active_assemblies)
    /\ UNCHANGED <<agents, available_agents, aggregator_vars, roles_vars>>

\* SwarmCoordinator.register_agent
register_agent(agent) ==
    /\ ~(\E i \in 1..Len(available_agents) : AgentEq(agents, available_agents[i], agent))
    /\ available_agents' = Append(available_agents, agent)
    /\ UNCHANGED <<agents, active_assemblies, execution_history, execs, aggregator_vars, roles_vars>>

\* SwarmCoordinator.unregister_agent
unregister_agent(agent_id) ==
    /\ available_agents' = SelectSeq(available_agents,
                                     LAMBDA a : Agent[a].agent_id # agent_id)
    /\ UNCHANGED <<agents, active_assemblies, execution_history, execs, aggregator_vars, roles_vars>>

(***************************************************************************)
(* The result aggregator (swarm/orchestrator/result_aggregator.py).        *)
(*                                                                         *)
(* Python values of the output maps: a value has a type and the text       *)
(* str() gives for it, so the int 1 and the str "1" are different values   *)
(* with the same str().  Confidences of AgentOutputs are in hundredths     *)
(* (90 is 0.9); computed confidences and quality scores are fractions      *)
(* [n, d] with d > 0, compared by cross-multiplication.                    *)
(***************************************************************************)
MaxOutputs == 3     \* longest list of agent outputs handed to aggregate (SpecAgg)

PyStr(text) == [type |-> "str", text |-> text]

PyInt(text) == [type |-> "int", text |-> text]

\* str(value)
str(value) == value.text

Frac(n, d) == [n |-> n, d |-> d]

FracEq(a, b) == a.n * b.d = b.n * a.d

FracLess(a, b) == a.n * b.d < b.n * a.d

RECURSIVE SumSeq(_)
SumSeq(s) == IF s = <<>> THEN 0 ELSE Head(s) + SumSeq(Tail(s))

\* dict.items() of an output map: the keys in insertion order.  Every output
\* map of the model was built in the order summary, plan, budget.
KeySeq == <<"summary", "plan", "budget">>

Keys == Range(KeySeq)

Items(d) == SelectSeq(KeySeq, LAMBDA k : k \in DOMAIN d)

\* AgentOutput (role_name, metadata and timestamp are never read)
AgentOutput(agent_id, output_data, confidence) ==
    [agent_id |-> agent_id, output_data |-> output_data, confidence |-> confidence]

\* mutant of validate: the confidence range is not checked
ValidateIgnoresConfidence(output) == DOMAIN output.output_data # {}

\* AgentOutput.validate
validate(output) ==
    /\ DOMAIN output.output_data # {}
    /\ ~(output.confidence < 0 \/ output.confidence > 100)

\* [o for o in agent_outputs if o.validate()]
ValidOutputs(agent_outputs) == SelectSeq(agent_outputs, validate)

\* [o.agent_id for o in outputs]
AgentIdsOf(outputs) == [i \in 1..Len(outputs) |-> outputs[i].agent_id]

\* sum(o.confidence for o in outputs) / len(outputs)
avg_confidence(outputs) ==
    Frac(SumSeq([i \in 1..Len(outputs) |-> outputs[i].confidence]), 100 * Len(outputs))

\* set().union(*[o.output_data.keys() for o in outputs])
all_keys(outputs) == UNION {DOMAIN outputs[i].output_data : i \in 1..Len(outputs)}

AggregatedResult(outputs, contributing_agents, confidence, strategy_used, conflicts, metadata) ==
    [outputs |-> outputs, contributing_agents |-> contributing_agents,
     confidence |-> confidence, strategy_used |-> strategy_used,
     conflicts |-> conflicts, metadata |-> metadata]

\* ResultAggregator._empty_result
_empty_result(strategy) ==
    AggregatedResult(EmptyDict, <<>>, Frac(0, 1), strategy, <<>>, EmptyDict)

\* A strategy returns the result and the list of outputs as the call leaves it.
Outcome(result, agent_outputs) == [result |-> result, agent_outputs |-> agent_outputs]

(***************************************************************************)
(* _merge_strategy                                                         *)
(***************************************************************************)
\* next(o.agent_id for o in outputs
\*      if key in o.output_data and o.output_data[key] == merged[key])
FirstAgentWith(outputs, key, value) ==
    LET holds(i) == /\ key \in DOMAIN outputs[i].output_data
                    /\ outputs[i].output_data[key] = value
        first == CHOOSE i \in 1..Len(outputs) :
                     holds(i) /\ \A j \in 1..(i - 1) : ~holds(j)
    IN  outputs[first].agent_id

MergeConflict(outputs, output, key, merged) ==
    [key |-> key,
     values |-> <<merged[key], output.output_data[key]>>,
     agents |-> <<FirstAgentWith(outputs, key, merged[key]), output.agent_id>>]

\* mutant of MergeWrite: the map is started again at each write
MergeWriteAlone(merged, key, value) == DictSet(EmptyDict, key, value)

\* mutant of MergeWrite: the first value written for a key is kept
MergeKeepsFirst(merged, key, value) ==
    IF key \in DOMAIN merged THEN merged ELSE DictSet(merged, key, value)

\* merged[key] = value
MergeWrite(merged, key, value) == DictSet(merged, key, value)

\* the inner loop over output.output_data.items(), from the j-th item on
RECURSIVE MergeItems(_, _, _, _)
MergeItems(outputs, output, j, acc) ==
    LET items == Items(output.output_data)
    IN  IF j > Len(items) THEN acc
        ELSE LET key == items[j]
                 value == output.output_data[key]
                 differs == key \in DOMAIN acc.merged /\ acc.merged[key] # value
             IN  MergeItems(outputs, output, j + 1,
                    [merged |-> MergeWrite(acc.merged, key, value),
                     conflicts |-> IF differs
                                   THEN Append(acc.conflicts,
                                               MergeConflict(outputs, output, key, acc.merged))
                                   ELSE acc.conflicts])

\* the outer loop over outputs, from the i-th output on
RECURSIVE MergeLoop(_, _, _)
MergeLoop(outputs, i, acc) ==
    IF i > Len(outputs) THEN acc
    ELSE MergeLoop(outputs, i + 1, MergeItems(outputs, outputs[i], 1, acc))

_merge_strategy(outputs) ==
    LET acc == MergeLoop(outputs, 1, [merged |-> EmptyDict, conflicts |-> <<>>])
    IN  Outcome(AggregatedResult(acc.merged, AgentIdsOf(outputs), avg_confidence(outputs),
                                 "merge", acc.conflicts,
                                 DictSet(EmptyDict, "num_outputs", Len(outputs))),
                outputs)

(***************************************************************************)
(* _vote_strategy.  votes[key] is a dict from str(value) to a count; its   *)
(* items() are in the order the texts were first counted.  all_keys is a   *)
(* set of strings: "for key in all_keys" visits it in an order the         *)
(* language does not fix (string hashing is seeded per process).  The      *)
(* order is the same for the whole life of the process; set_order holds it *)
(* from the first iteration on, and is <<>> before.                        *)
(***************************************************************************)
\* the str() of the values the outputs hold for key, in contributor order
CastVotes(outputs, key) ==
    LET having == SelectSeq(outputs, LAMBDA o : key \in DOMAIN o.output_data)
    IN  [i \in 1..Len(having) |-> str(having[i].output_data[key])]

\* votes[key][value_str] = votes[key].get(value_str, 0) + 1, for the i-th vote on
RECURSIVE Tally(_, _, _)
Tally(cast, i, tally) ==
    IF i > Len(cast) THEN tally
    ELSE LET known == {j \in 1..Len(tally) : tally[j].value = cast[i]}
         IN  Tally(cast, i + 1,
                   IF known = {}
                   THEN Append(tally, [value |-> cast[i], count |-> 1])
                   ELSE LET j == CHOOSE x \in known : TRUE
                        IN  [tally EXCEPT ![j].count = @ + 1])

\* mutant of InsertVote: an item goes before the items of equal count
InsertVoteBeforeEqual(sorted, item) ==
    LET before == SelectSeq(sorted, LAMBDA x : x.count > item.count)
        after == SelectSeq(sorted, LAMBDA x : x.count <= item.count)
    IN  before \o <<item>> \o after

\* sorted(..., key=count, reverse=True) is stable: an item goes after the
\* items of greater or equal count that precede it.
InsertVote(sorted, item) ==
    LET before == SelectSeq(sorted, LAMBDA x : x.count >= item.count)
        after == SelectSeq(sorted, LAMBDA x : x.count < item.count)
    IN  before \o <<item>> \o after

RECURSIVE SortVotes(_, _, _)
SortVotes(tally, i, sorted) ==
    IF i > Len(tally) THEN sorted
    ELSE SortVotes(tally, i + 1, InsertVote(sorted, tally[i]))

sorted_votes(outputs, key) == SortVotes(Tally(CastVotes(outputs, key), 1, <<>>), 1, <<>>)

\* the orders in which a process may iterate a set of keys
KeyOrders == {s \in [1..Len(KeySeq) -> Keys] : Range(s) = Keys}

\* the orders this process may still iterate a set of keys in
IterationOrders == IF set_order = <<>> THEN KeyOrders ELSE {set_order}

\* list(all_keys), in a process that iterates sets in the given order
KeysInSetOrder(keys, order) == SelectSeq(order, LAMBDA k : k \in keys)

VoteConflict(key, sorted) ==
    LET top == SubSeq(sorted, 1, 2)
    IN  [key |-> key,
         values |-> [i \in 1..Len(top) |-> PyStr(top[i].value)],
         votes |-> [i \in 1..Len(top) |-> top[i].count]]

\* the loop "for key in all_keys", from the i-th key on
RECURSIVE VoteLoop(_, _, _, _)
VoteLoop(outputs, keys, i, acc) ==
    IF i > Len(keys) THEN acc
    ELSE LET key == keys[i]
             sorted == sorted_votes(outputs, key)
             tie == Len(sorted) > 1 /\ sorted[1].count = sorted[2].count
         IN  VoteLoop(outputs, keys, i + 1,
                [result |-> DictSet(acc.result, key, PyStr(sorted[1].value)),
                 conflicts |-> IF tie THEN Append(acc.conflicts, VoteConflict(key, sorted))
                               ELSE acc.conflicts])

_vote_strategy(outputs, order) ==
    LET keys == KeysInSetOrder(all_keys(outputs), order)
        acc == VoteLoop(outputs, keys, 1, [result |-> EmptyDict, conflicts |-> <<>>])
        total_votes == SumSeq([i \in 1..Len(keys) |-> Len(CastVotes(outputs, keys[i]))])
        winning_votes == SumSeq([i \in 1..Len(keys) |-> sorted_votes(outputs, keys[i])[1].count])
    IN  Outcome(AggregatedResult(acc.result, AgentIdsOf(outputs),
                                 IF total_votes > 0 THEN Frac(winning_votes, total_votes)
                                 ELSE Frac(0, 1),
                                 "vote", acc.conflicts,
                                 DictSet(EmptyDict, "total_votes", total_votes)),
                outputs)

(***************************************************************************)
(* _consensus_strategy                                                     *)
(***************************************************************************)
ConsensusConflict(outputs, output, key, consensus) ==
    [key |-> key,
     values |-> <<consensus[key], output.output_data[key]>>,
     agents |-> <<outputs[1].agent_id, output.agent_id>>]

\* mutant of ConsensusRemove: the disputed key takes the later value
ConsensusOverwrites(consensus, key, value) == DictSet(consensus, key, value)

\* del consensus[key]
ConsensusRemove(consensus, key, value) == DictDel(consensus, key)

\* the inner loop over output.output_data.items(), from the j-th item on
RECURSIVE ConsensusItems(_, _, _, _)
ConsensusItems(outputs, output, j, acc) ==
    LET items == Items(output.output_data)
    IN  IF j > Len(items) THEN acc
        ELSE LET key == items[j]
                 value == output.output_data[key]
                 differs == key \in DOMAIN acc.consensus /\ acc.consensus[key] # value
             IN  ConsensusItems(outputs, output, j + 1,
                    IF differs
                    THEN [consensus |-> ConsensusRemove(acc.consensus, key, value),
                          conflicts |-> Append(acc.conflicts,
                                               ConsensusConflict(outputs, output, key,
                                                                 acc.consensus))]
                    ELSE acc)

\* the loop over outputs[1:], from the i-th output of the list on
RECURSIVE ConsensusLoop(_, _, _)
ConsensusLoop(outputs, i, acc) ==
    IF i > Len(outputs) THEN acc
    ELSE ConsensusLoop(outputs, i + 1, ConsensusItems(outputs, outputs[i], 1, acc))

\* mutant of BaselineCopy: consensus is the first output's own dict, so the
\* deletions of the loop are made in the caller's AgentOutput
BaselineAlias(outputs, consensus) == [outputs EXCEPT ![1].output_data = consensus]

\* consensus = outputs[0].output_data.copy(): the list of outputs after the
\* loop has worked on the copy
BaselineCopy(outputs, consensus) == outputs

_consensus_strategy(outputs) ==
    IF outputs = <<>> THEN Outcome(_empty_result("consensus"), outputs)
    ELSE LET acc == ConsensusLoop(outputs, 2, [consensus |-> outputs[1].output_data,
                                               conflicts |-> <<>>])
             keys == all_keys(outputs)
         IN  Outcome(AggregatedResult(acc.consensus, AgentIdsOf(outputs),
                                      IF keys # {}
                                      THEN Frac(Cardinality(DOMAIN acc.consensus),
                                                Cardinality(keys))
                                      ELSE Frac(0, 1),
                                      "consensus", acc.conflicts,
                                      DictSet(EmptyDict, "consensus_keys",
                                              Cardinality(DOMAIN acc.consensus))),
                     BaselineCopy(outputs, acc.consensus))

(***************************************************************************)
(* _weighted_strategy, _best_strategy, _sequential_strategy                *)
(***************************************************************************)
\* max(outputs, key=confidence): the first output of greatest confidence
FirstMaxConfidence(outputs) ==
    CHOOSE i \in 1..Len(outputs) :
        /\ \A j \in 1..Len(outputs) : outputs[j].confidence <= outputs[i].confidence
        /\ \A j \in 1..(i - 1) : outputs[j].confidence < outputs[i].confidence

\* max(weights[key], key=weight)[0]
weighted_value(outputs, key) ==
    LET having == SelectSeq(outputs, LAMBDA o : key \in DOMAIN o.output_data)
    IN  having[FirstMaxConfidence(having)].output_data[key]

_weighted_strategy(outputs) ==
    LET total_weight == SumSeq([i \in 1..Len(outputs) |-> outputs[i].confidence])
    IN  Outcome(AggregatedResult([key \in all_keys(outputs) |-> weighted_value(outputs, key)],
                                 AgentIdsOf(outputs),
                                 IF outputs # <<>> THEN avg_confidence(outputs) ELSE Frac(0, 1),
                                 "weighted", <<>>,
                                 DictSet(EmptyDict, "total_weight", total_weight)),
                outputs)

_best_strategy(outputs) ==
    IF outputs = <<>> THEN Outcome(_empty_result("best"), outputs)
    ELSE LET best == outputs[FirstMaxConfidence(outputs)]
         IN  Outcome(AggregatedResult(best.output_data, <<best.agent_id>>,
                                      Frac(best.confidence, 100), "best", <<>>,
                                      DictSet(EmptyDict, "selected_agent", best.agent_id)),
                     outputs)

\* result.update(output.output_data), from the i-th output on
RECURSIVE SequentialLoop(_, _, _)
SequentialLoop(outputs, i, result) ==
    IF i > Len(outputs) THEN result
    ELSE SequentialLoop(outputs, i + 1, DictUpdate(result, outputs[i].output_data))

_sequential_strategy(outputs) ==
    Outcome(AggregatedResult(SequentialLoop(outputs, 1, EmptyDict), AgentIdsOf(outputs),
                             avg_confidence(outputs), "sequential", <<>>,
                             DictSet(EmptyDict, "pipeline_length", Len(outputs))),
            outputs)

(***************************************************************************)
(* aggregate.  The strategies contain no await that suspends, so a call is *)
(* one step.  The caller's list holds the AgentOutput objects; the         *)
(* strategy is handed the valid ones of them.                              *)
(***************************************************************************)
AggregationStrategy == {"merge", "vote", "consensus", "weighted", "best", "sequential"}

\* self.aggregation_strategies.get(strategy), _merge_strategy when there is none
strategy_func(strategy, outputs, order) ==
    CASE strategy = "vote" -> _vote_strategy(outputs, order)
      [] strategy = "consensus" -> _consensus_strategy(outputs)
      [] strategy = "weighted" -> _weighted_strategy(outputs)
      [] strategy = "best" -> _best_strategy(outputs)
      [] strategy = "sequential" -> _sequential_strategy(outputs)
      [] OTHER -> _merge_strategy(outputs)

\* the caller's list of objects, given the valid objects as the strategy left them
CallerList(agent_outputs, valid_after) ==
    [i \in 1..Len(agent_outputs) |->
        IF validate(agent_outputs[i])
        THEN valid_after[Cardinality({j \in 1..i : validate(agent_outputs[j])})]
        ELSE agent_outputs[i]]

\* the body of aggregate, in a process that iterates sets in the given order:
\* the result returned, and the caller's list after the call
Aggregate(agent_outputs, strategy, order) ==
    LET valid_outputs == ValidOutputs(agent_outputs)
    IN  IF valid_outputs = <<>>
        THEN Outcome(_empty_result(strategy), agent_outputs)
        ELSE LET outcome == strategy_func(strategy, valid_outputs, order)
             IN  Outcome(outcome.result, CallerList(agent_outputs, outcome.agent_outputs))

\* set_order after a call: only _vote_strategy iterates a set
OrderSeen(strategy, order) == IF strategy = "vote" THEN order ELSE set_order

\* ResultAggregator.aggregate, the first call of a behaviour
aggregate(agent_outputs, strategy) ==
    /\ ~aggregation.called
    /\ \E order \in IterationOrders :
           LET outcome == Aggregate(agent_outputs, strategy, order)
           IN  /\ aggregation' = [called |-> TRUE,
                                  agent_outputs |-> agent_outputs,
                                  strategy |-> strategy,
                                  result |-> outcome.result,
                                  outputs_after |-> outcome.agent_outputs,
                                  repeated |-> FALSE]
               /\ set_order' = OrderSeen(strategy, order)
    /\ UNCHANGED <<coordinator_vars, roles_vars, validation>>

\* ResultAggregator.aggregate, called a second time with the same list object
\* and the same strategy.  The aggregator keeps nothing between calls, so two
\* calls per behaviour show all of them.
aggregate_again ==
    /\ aggregation.called
    /\ ~aggregation.repeated
    /\ \E order \in IterationOrders :
           LET outcome == Aggregate(aggregation.outputs_after, aggregation.strategy, order)
           IN  /\ aggregation' = [aggregation EXCEPT !.repeated = TRUE] @@
                                 [result_again |-> outcome.result,
                                  outputs_again |-> outcome.agent_outputs]
               /\ set_order' = OrderSeen(aggregation.strategy, order)
    /\ UNCHANGED <<coordinator_vars, roles_vars, validation>>

(***************************************************************************)
(* validate_result.  requirements is a dict that may hold the keys         *)
(* required_outputs (a list of keys), max_conflicts and min_confidence.    *)
(* An error or warning is the message with the values formatted into it.   *)
(***************************************************************************)
DefaultMaxConflicts == 3

DefaultMinConfidence == Frac(7, 10)

\* requirements.get(key, default)
Get(requirements, key, default) ==
    IF key \in DOMAIN requirements THEN requirements[key] ELSE default

ValidationResult(is_valid, errors, warnings, quality_score) ==
    [is_valid |-> is_valid, errors |-> errors, warnings |-> warnings,
     quality_score |-> quality_score]

\* one error per entry of required_keys that is not a key of the outputs
MissingErrors(required_keys, outputs) ==
    LET missing == SelectSeq(required_keys, LAMBDA key : key \notin DOMAIN outputs)
    IN  [i \in 1..Len(missing) |-> [text |-> "Missing required output", key |-> missing[i]]]

\* mutant of ConflictIssues: a conflict count above the threshold is a warning too
ConflictsOnlyWarn(conflicts, conflict_threshold) ==
    IF Len(conflicts) > 0
    THEN [errors |-> <<>>,
          warnings |-> <<[text |-> "Found conflicts", count |-> Len(conflicts)]>>]
    ELSE [errors |-> <<>>, warnings |-> <<>>]

\* the check of result.conflicts
ConflictIssues(conflicts, conflict_threshold) ==
    IF Len(conflicts) > 0
    THEN IF Len(conflicts) > conflict_threshold
         THEN [errors |-> <<[text |-> "Too many conflicts", count |-> Len(conflicts),
                             max |-> conflict_threshold]>>,
               warnings |-> <<>>]
         ELSE [errors |-> <<>>,
               warnings |-> <<[text |-> "Found conflicts", count |-> Len(conflicts)]>>]
    ELSE [errors |-> <<>>, warnings |-> <<>>]

\* the check of result.confidence
ConfidenceErrors(confidence, min_confidence) ==
    IF FracLess(confidence, min_confidence)
    THEN <<[text |-> "Confidence below threshold", confidence |-> confidence,
            threshold |-> min_confidence]>>
    ELSE <<>>

\* max(0.0, min(1.0, quality_score))
Clamp(q) ==
    IF FracLess(q, Frac(0, 1)) THEN Frac(0, 1)
    ELSE IF FracLess(Frac(1, 1), q) THEN Frac(1, 1)
    ELSE q

\* mutant of QualityScore: warnings cost nothing
QualityIgnoresWarnings(confidence, errors, warnings) ==
    Clamp(Frac(10 * confidence.n - errors * confidence.d, 10 * confidence.d))

\* confidence - len(errors) * 0.1 - len(warnings) * 0.05, clamped
QualityScore(confidence, errors, warnings) ==
    Clamp(Frac(20 * confidence.n - 2 * errors * confidence.d - warnings * confidence.d,
               20 * confidence.d))

\* the body of validate_result
Validate(result, requirements) ==
    LET missing == MissingErrors(Get(requirements, "required_outputs", <<>>), result.outputs)
        conflict == ConflictIssues(result.conflicts,
                                   Get(requirements, "max_conflicts", DefaultMaxConflicts))
        low == ConfidenceErrors(result.confidence,
                                Get(requirements, "min_confidence", DefaultMinConfidence))
        errors == missing \o conflict.errors \o low
        warnings == conflict.warnings
    IN  ValidationResult(errors = <<>>, errors, warnings,
                         QualityScore(result.confidence, Len(errors), Len(warnings)))

\* ResultAggregator.validate_result, one call per behaviour
validate_result(result, requirements) ==
    /\ ~validation.called
    /\ validation' = [called |-> TRUE,
                      result |-> result,
                      requirements |-> requirements,
                      returned |-> Validate(result, requirements)]
    /\ UNCHANGED <<coordinator_vars, roles_vars, aggregation, set_order>>

(***************************************************************************)
(* The capability model (swarm/roles/capabilities.py): a constant table of *)
(* capability names and their related skills, and a matcher that only      *)
(* reads it.  The description of an entry is never read by the matcher and *)
(* is left out.  A score is a fraction [n, d].                             *)
(***************************************************************************)
MaxCapabilities == 2    \* longest capability list handed to the matcher (SpecCapabilities)

CAPABILITY_DEFINITIONS ==
    [coding |-> [related_skills |-> <<"python", "typescript", "javascript", "solidity">>],
     architecture |-> [related_skills |-> <<"design", "systems_thinking", "scalability">>],
     testing |-> [related_skills |-> <<"qa", "automation", "test_planning">>],
     debugging |-> [related_skills |-> <<"troubleshooting", "analysis", "problem_solving">>],
     documentation |-> [related_skills |-> <<"writing", "technical_writing", "markdown">>],
     frontend |-> [related_skills |-> <<"react", "css", "html", "javascript">>],
     ui_development |-> [related_skills |-> <<"ux", "design", "frontend">>],
     react |-> [related_skills |-> <<"javascript", "typescript", "jsx">>],
     backend |-> [related_skills |-> <<"api", "database", "server">>],
     api_development |-> [related_skills |-> <<"backend", "http", "websocket">>],
     database |-> [related_skills |-> <<"sql", "nosql", "data_modeling">>],
     blockchain |-> [related_skills |-> <<"web3", "smart_contracts", "cryptography">>],
     solidity |-> [related_skills |-> <<"ethereum", "smart_contracts", "blockchain">>],
     web3 |-> [related_skills |-> <<"blockchain", "wallets", "tokens">>],
     research |-> [related_skills |-> <<"analysis", "literature_review", "data_collection">>],
     analysis |-> [related_skills |-> <<"critical_thinking", "data_analysis", "statistics">>],
     data_analysis |-> [related_skills |-> <<"statistics", "visualization", "python">>],
     writing |-> [related_skills |-> <<"technical_writing", "documentation", "editing">>],
     technical_writing |-> [related_skills |-> <<"documentation", "writing", "clarity">>],
     communication |-> [related_skills |-> <<"writing", "presentation", "facilitation">>],
     project_management |-> [related_skills |-> <<"planning", "coordination", "risk_management">>],
     planning |-> [related_skills |-> <<"organization", "scheduling", "prioritization">>],
     coordination |-> [related_skills |-> <<"communication", "organization", "facilitation">>],
     moderation |-> [related_skills |-> <<"facilitation", "conflict_resolution", "communication">>],
     argumentation |-> [related_skills |-> <<"reasoning", "logic", "persuasion">>],
     reasoning |-> [related_skills |-> <<"logic", "analysis", "problem_solving">>],
     curation |-> [related_skills |-> <<"analysis", "prioritization", "judgment">>],
     streaming |-> [related_skills |-> <<"obs", "audio_video", "broadcasting">>],
     economics |-> [related_skills |-> <<"tokenomics", "game_theory", "mathematics">>]]

\* self.capabilities.get(capability, {})
get_capability_info(capability) ==
    IF capability \in DOMAIN CAPABILITY_DEFINITIONS
    THEN CAPABILITY_DEFINITIONS[capability]
    ELSE EmptyDict

\* info.get("related_skills", [])
RelatedSkills(info) ==
    IF "related_skills" \in DOMAIN info THEN info["related_skills"] ELSE <<>>

\* A lookup that leaves out the capabilities that list this one.
RelatedListedOnly(capability) ==
    Range(RelatedSkills(get_capability_info(capability)))

\* the skills the capability lists, and the capabilities that list it
get_related_capabilities(capability) ==
    Range(RelatedSkills(get_capability_info(capability)))
        \cup {cap_name \in DOMAIN CAPABILITY_DEFINITIONS :
                 capability \in Range(RelatedSkills(CAPABILITY_DEFINITIONS[cap_name]))}

\* min(1.0, total_matches / max_score), total_matches counted in halves
MinOne(halves, max_score) ==
    IF 2 * max_score < halves THEN Frac(1, 1) ELSE Frac(halves, 2 * max_score)

\* the required capabilities the agent lacks and has a related capability for
RelatedMatches(agent_caps_set, required_set) ==
    {required \in required_set \ agent_caps_set :
        agent_caps_set \cap get_related_capabilities(required) # {}}

calculate_match_score(agent_capabilities, required_capabilities) ==
    IF required_capabilities = <<>>
    THEN Frac(1, 1)
    ELSE LET agent_caps_set == Range(agent_capabilities)
             required_set == Range(required_capabilities)
             direct_matches == Cardinality(agent_caps_set \cap required_set)
             related_halves ==
                 Cardinality(RelatedMatches(agent_caps_set, required_set))
             max_score == Len(required_capabilities)
         IN  IF max_score > 0
             THEN MinOne(2 * direct_matches + related_halves, max_score)
             ELSE Frac(0, 1)

can_substitute(agent_capability, required_capability) ==
    \/ agent_capability = required_capability
    \/ agent_capability \in get_related_capabilities(required_capability)

\* One call of the matcher: calculate_match_score or can_substitute.
match_score(agent_capabilities, required_capabilities) ==
    /\ matching' = [called |-> TRUE,
                    agent_capabilities |-> agent_capabilities,
                    required_capabilities |-> required_capabilities,
                    score |-> calculate_match_score(agent_capabilities,
                                                    required_capabilities)]
    /\ UNCHANGED <<coordinator_vars, aggregator_vars, substitution, loader_vars>>

substitute(agent_capability, required_capability) ==
    /\ substitution' = [called |-> TRUE,
                        agent_capability |-> agent_capability,
                        required_capability |-> required_capability,
                        result |-> can_substitute(agent_capability,
                                                  required_capability)]
    /\ UNCHANGED <<coordinator_vars, aggregator_vars, matching, loader_vars>>

(***************************************************************************)
(* The role loader (swarm/roles/role_loader.py).  A role definitions file  *)
(* is what open and yaml.safe_load make of it: an exception               *)
(* (FileNotFoundError, YAMLError) or a document, None for an empty file    *)
(* and otherwise a dict.  A value that may be None is a list of at most    *)
(* one element, <<>> for None.  The "roles" mapping of a document is kept  *)
(* as the list of its items in file order; the data of a role is a dict    *)
(* or, for a role written without a body, None.  Of a RoleDefinition the   *)
(* model keeps role_id and dependencies, the fields the loader reads.      *)
(*                                                                         *)
(* reload takes no lock: a reader on another thread may run between any    *)
(* two of its statements, so each action below is one statement of reload  *)
(* or of _load_definitions.  previous and file are kept for the            *)
(* properties: the tables reload found, and the file _load_definitions     *)
(* read.                                                                   *)
(***************************************************************************)
FileNotFoundError == "FileNotFoundError"

YAMLError == "YAMLError"

\* what open and yaml.safe_load give: an exception, or the document
File(raises, document) == [raises |-> raises, document |-> document]

\* RoleDefinition.__init__
RoleDefinition(role_id, data) ==
    [role_id |-> role_id, dependencies |-> Get(data, "dependencies", <<>>)]

\* open or safe_load raised, or data.get raised AttributeError on None:
\* _load_definitions goes to one of its except clauses before the loop
LoadRaises(file) == file.raises # None \/ file.document = <<>>

\* data.get("roles", {}).items()
RolesData(data) == Get(data, "roles", <<>>)

\* RoleLoader.__init__ before _load_definitions
EmptyRoleLoader ==
    [roles |-> EmptyDict, categories |-> EmptyDict, pc |-> "open",
     data |-> <<>>, i |-> 0,
     previous |-> [roles |-> EmptyDict, categories |-> EmptyDict],
     file |-> <<>>, seen |-> <<>>]

\* reload: self.roles.clear()
RoleLoader_reload ==
    /\ role_loader.pc = "idle"
    /\ role_loader' =
           [role_loader EXCEPT
               !.roles = EmptyDict,
               !.previous = [roles |-> role_loader.roles,
                             categories |-> role_loader.categories],
               !.file = <<>>,
               !.pc = "clear_categories"]
    /\ UNCHANGED <<coordinator_vars, aggregator_vars, matcher_vars, tree,
                   assembly_loader>>

\* reload: self.categories.clear()
ClearCategories ==
    /\ role_loader.pc = "clear_categories"
    /\ role_loader' = [role_loader EXCEPT !.categories = EmptyDict, !.pc = "open"]
    /\ UNCHANGED <<coordinator_vars, aggregator_vars, matcher_vars, tree,
                   assembly_loader>>

\* _load_definitions up to the loop: open, safe_load, data.get("roles", {});
\* an exception is logged and ends the load
OpenDefinitions(loader, file) ==
    IF LoadRaises(file)
    THEN [loader EXCEPT !.file = <<file>>, !.pc = "idle"]
    ELSE [loader EXCEPT !.file = <<file>>, !.data = file.document, !.i = 1,
                        !.pc = "roles"]

\* _load_definitions: one turn of the loop over the items of roles_data, or
\* its end; RoleDefinition raises AttributeError for a role without a body
LoadRole(loader) ==
    LET roles_data == RolesData(loader.data[1])
        i == loader.i
    IN  IF i > Len(roles_data)
        THEN [loader EXCEPT !.pc = "categories"]
        ELSE IF roles_data[i][2] = <<>>
        THEN [loader EXCEPT !.pc = "idle"]
        ELSE [loader EXCEPT
                 !.roles = DictSet(@, roles_data[i][1],
                                   RoleDefinition(roles_data[i][1],
                                                  roles_data[i][2][1])),
                 !.i = i + 1]

\* _load_definitions: self.categories = data.get("categories", {})
LoadCategories(loader) ==
    [loader EXCEPT !.categories = Get(loader.data[1], "categories", EmptyDict),
                   !.pc = "idle"]

\* _load_definitions with the file it finds, one statement at a time
_load_definitions(file) ==
    /\ role_loader.pc = "open"
    /\ role_loader' = OpenDefinitions(role_loader, file)
    /\ UNCHANGED <<coordinator_vars, aggregator_vars, matcher_vars, tree,
                   assembly_loader>>

LoadRoleStep ==
    /\ role_loader.pc = "roles"
    /\ role_loader' = LoadRole(role_loader)
    /\ UNCHANGED <<coordinator_vars, aggregator_vars, matcher_vars, tree,
                   assembly_loader>>

LoadCategoriesStep ==
    /\ role_loader.pc = "categories"
    /\ role_loader' = LoadCategories(role_loader)
    /\ UNCHANGED <<coordinator_vars, aggregator_vars, matcher_vars, tree,
                   assembly_loader>>

RECURSIVE RunLoad(_)
\* _load_definitions run to its end
RunLoad(loader) ==
    IF loader.pc = "idle" THEN loader
    ELSE IF loader.pc = "roles" THEN RunLoad(LoadRole(loader))
    ELSE RunLoad(LoadCategories(loader))

\* RoleLoader(definitions_path): the constructor runs _load_definitions on
\* the empty table, and no other thread holds the object before it returns
RoleLoader(file) ==
    LET loaded == RunLoad(OpenDefinitions(EmptyRoleLoader, file))
    IN  [loaded EXCEPT !.previous = [roles |-> loaded.roles,
                                     categories |-> loaded.categories],
                       !.file = <<>>]

\* self.roles.get(role_id)
get_role(roles, role_id) ==
    IF role_id \in DOMAIN roles THEN <<roles[role_id]>> ELSE <<>>

\* A reader looks a role up; seen is what it was handed.
ReadRole(role_id) ==
    /\ role_loader' =
           [role_loader EXCEPT
               !.seen = <<[role_id |-> role_id,
                           role |-> get_role(role_loader.roles, role_id)]>>]
    /\ UNCHANGED <<coordinator_vars, aggregator_vars, matcher_vars, tree,
                   assembly_loader>>

(***************************************************************************)
(* get_role_dependency_tree.  The call is synchronous; its while loop is   *)
(* modelled one turn at a time, so that its end is a property of the model *)
(* and not of the way the model is written.  roles is the table of the     *)
(* loader the method is called on.                                         *)
(***************************************************************************)
MaxDependencies == 2    \* longest dependency list of a role (SpecTree)

\* A loop that takes the newest entry of to_process instead of the oldest.
PopNewest(to_process) ==
    [dep_id |-> to_process[Len(to_process)],
     rest |-> SubSeq(to_process, 1, Len(to_process) - 1)]

\* to_process.pop(0)
Pop(to_process) == [dep_id |-> Head(to_process), rest |-> Tail(to_process)]

\* what to_process is extended with: the dependencies of dep_id when
\* get_role finds it
Extension(roles, dep_id) ==
    IF get_role(roles, dep_id) # <<>>
    THEN get_role(roles, dep_id)[1].dependencies
    ELSE <<>>

\* one turn of the while loop
ProcessNext(call) ==
    LET popped == Pop(call.to_process)
        dep_id == popped.dep_id
    IN  IF dep_id \notin Range(call.dependencies)
        THEN [call EXCEPT
                 !.dependencies = Append(@, dep_id),
                 !.to_process = popped.rest \o Extension(call.roles, dep_id)]
        ELSE [call EXCEPT !.to_process = popped.rest]

\* the call up to its loop: an unknown role_id returns [] at once
get_role_dependency_tree(roles, role_id) ==
    /\ tree' =
           IF get_role(roles, role_id) = <<>>
           THEN [called |-> TRUE, roles |-> roles, role_id |-> role_id,
                 pc |-> "done", dependencies |-> <<>>, to_process |-> <<>>,
                 result |-> <<>>]
           ELSE [called |-> TRUE, roles |-> roles, role_id |-> role_id,
                 pc |-> "loop", dependencies |-> <<>>,
                 to_process |-> get_role(roles, role_id)[1].dependencies,
                 result |-> <<>>]
    /\ UNCHANGED <<coordinator_vars, aggregator_vars, matcher_vars,
                   role_loader, assembly_loader>>

\* while to_process: one turn; the loop ends with return dependencies
TreeLoop ==
    /\ tree.called
    /\ tree.pc = "loop"
    /\ tree' =
           IF tree.to_process # <<>>
           THEN ProcessNext(tree)
           ELSE [tree EXCEPT !.pc = "done", !.result = tree.dependencies]
    /\ UNCHANGED <<coordinator_vars, aggregator_vars, matcher_vars,
                   role_loader, assembly_loader>>

(***************************************************************************)
(* The assembly loader (swarm/assemblies/assembly_loader.py).  A templates *)
(* directory is missing or is the list of its template files in the order  *)
(* glob lists them; a template file is, as for the role loader, an         *)
(* exception or a document.  reload takes no lock either, and each action  *)
(* is one statement of reload or one template of _load_templates.          *)
(***************************************************************************)
\* AssemblyDefinition.__init__ (version, description and metadata are not
\* read by the loader)
AssemblyDefinition(data) ==
    [name |-> Get(data, "name", ""),
     roles |-> Get(data, "roles", <<>>),
     workflow |-> Get(data, "workflow", EmptyDict),
     success_criteria |-> Get(data, "success_criteria", EmptyDict)]

\* the errors AssemblyDefinition.validate collects; is_valid is that there
\* are none
ValidationErrors(assembly) ==
    LET steps == Get(assembly.workflow, "steps", <<>>)
        defined_roles == {Get(assembly.roles[r], "name", None) :
                             r \in 1..Len(assembly.roles)}
    IN  (IF assembly.name = "" THEN <<"Assembly must have a name">> ELSE <<>>)
        \o (IF assembly.roles = <<>>
            THEN <<"Assembly must define at least one role">> ELSE <<>>)
        \o (IF DOMAIN assembly.workflow = {}
            THEN <<"Assembly must define a workflow">> ELSE <<>>)
        \o (IF DOMAIN assembly.success_criteria = {}
            THEN <<"Assembly must define success criteria">> ELSE <<>>)
        \o (IF steps = <<>>
            THEN <<"Workflow must have at least one step">> ELSE <<>>)
        \o [s \in 1..Cardinality({s \in 1..Len(steps) :
                                     Get(steps[s], "role", None) \notin defined_roles})
               |-> "Step references undefined role"]
        \o (IF "required_outputs" \notin DOMAIN assembly.success_criteria
            THEN <<"Success criteria must define required_outputs">> ELSE <<>>)

\* _load_template: a file that cannot be read or parsed, an empty document
\* (AttributeError in AssemblyDefinition) and an invalid assembly are logged
\* and leave the table as it is
_load_template(assemblies, file) ==
    IF file.raises # None \/ file.document = <<>>
    THEN assemblies
    ELSE LET assembly == AssemblyDefinition(file.document[1])
         IN  IF ValidationErrors(assembly) # <<>>
             THEN assemblies
             ELSE DictSet(assemblies, assembly.name, assembly)

\* AssemblyLoader.__init__ before _load_templates
EmptyAssemblyLoader ==
    [assemblies |-> EmptyDict, pc |-> "load", template_files |-> <<>>, i |-> 0,
     previous |-> EmptyDict, dir |-> <<>>, seen |-> <<>>]

\* _load_templates up to the loop: a missing directory ends the load
ListTemplates(loader, dir) ==
    IF dir = <<>>
    THEN [loader EXCEPT !.dir = <<dir>>, !.pc = "idle"]
    ELSE [loader EXCEPT !.dir = <<dir>>, !.template_files = dir[1], !.i = 1,
                        !.pc = "templates"]

\* _load_templates: one turn of the loop over template_files, or its end
LoadTemplate(loader) ==
    IF loader.i > Len(loader.template_files)
    THEN [loader EXCEPT !.pc = "idle"]
    ELSE [loader EXCEPT
             !.assemblies = _load_template(@, loader.template_files[loader.i]),
             !.i = @ + 1]

RECURSIVE RunTemplates(_)
\* _load_templates run to its end
RunTemplates(loader) ==
    IF loader.pc = "idle" THEN loader ELSE RunTemplates(LoadTemplate(loader))

\* AssemblyLoader(templates_dir)
AssemblyLoader(dir) ==
    LET loaded == RunTemplates(ListTemplates(EmptyAssemblyLoader, dir))
    IN  [loaded EXCEPT !.previous = loaded.assemblies, !.dir = <<>>]

\* reload: self.assemblies.clear()
AssemblyLoader_reload ==
    /\ assembly_loader.pc = "idle"
    /\ assembly_loader' =
           [assembly_loader EXCEPT !.assemblies = EmptyDict,
                                   !.previous = assembly_loader.assemblies,
                                   !.dir = <<>>,
                                   !.pc = "load"]
    /\ UNCHANGED <<coordinator_vars, aggregator_vars, matcher_vars, tree,
                   role_loader>>

\* _load_templates with the directory it finds
_load_templates(dir) ==
    /\ assembly_loader.pc = "load"
    /\ assembly_loader' = ListTemplates(assembly_loader, dir)
    /\ UNCHANGED <<coordinator_vars, aggregator_vars, matcher_vars, tree,
                   role_loader>>

LoadTemplateStep ==
    /\ assembly_loader.pc = "templates"
    /\ assembly_loader' = LoadTemplate(assembly_loader)
    /\ UNCHANGED <<coordinator_vars, aggregator_vars, matcher_vars, tree,
                   role_loader>>

\* self.assemblies.get(name)
get_assembly(assemblies, name) ==
    IF name \in DOMAIN assemblies THEN <<assemblies[name]>> ELSE <<>>

\* A reader looks an assembly up; seen is what it was handed.
ReadAssembly(name) ==
    /\ assembly_loader' =
           [assembly_loader EXCEPT
               !.seen = <<[name |-> name,
                           assembly |-> get_assembly(assembly_loader.assemblies, name)]>>]
    /\ UNCHANGED <<coordinator_vars, aggregator_vars, matcher_vars, tree,
                   role_loader>>

(***************************************************************************)
(* The files of the loaders.  The role definitions file the loader was     *)
(* constructed on defines writer and coder; the files a reload may find    *)
(* are that file, a revised one, one whose second role has no body, an     *)
(* empty one, one that is not YAML and none at all.                        *)
(***************************************************************************)
RoleData(dependencies) == <<[dependencies |-> dependencies]>>

InitialRoleFile ==
    File(None, <<[roles |-> <<<<"writer", RoleData(<<>>)>>,
                              <<"coder", RoleData(<<"writer">>)>>>>,
                  categories |-> [content |-> <<"writer">>,
                                  engineering |-> <<"coder">>]]>>)

RevisedRoleFile ==
    File(None, <<[roles |-> <<<<"coder", RoleData(<<>>)>>,
                              <<"lead", RoleData(<<"coder">>)>>>>,
                  categories |-> [engineering |-> <<"coder", "lead">>]]>>)

BrokenRoleFile ==
    File(None, <<[roles |-> <<<<"writer", RoleData(<<>>)>>,
                              <<"coder", <<>>>>>>,
                  categories |-> [content |-> <<"writer">>]]>>)

RoleFiles ==
    {InitialRoleFile, RevisedRoleFile, BrokenRoleFile, File(None, <<>>),
     File(YAMLError, <<>>), File(FileNotFoundError, <<>>)}

Template(name, roles, steps) ==
    File(None, <<[name |-> name,
                  roles |-> [r \in 1..Len(roles) |-> [name |-> roles[r]]],
                  workflow |-> [steps |-> steps],
                  success_criteria |-> [required_outputs |-> <<>>]]>>)

ReviewTemplate == Template("review", <<"coder">>, <<Step("coder", "build")>>)

ArticleTemplate ==
    Template("article", <<"writer", "coder">>,
             <<Step("writer", "draft"), Step("coder", "build")>>)

\* a template whose step names a role the assembly does not define
InvalidTemplate == Template("patch", <<"coder">>, <<Step("writer", "draft")>>)

\* a templates directory: missing (<<>>), or the list of its template files
TemplateDirs ==
    {<<>>,
     <<<<>>>>,
     <<<<ReviewTemplate, ArticleTemplate>>>>,
     <<<<ArticleTemplate, InvalidTemplate, File(YAMLError, <<>>)>>>>}

\* the state after construction: no matcher call and no dependency tree
\* call has been made, and the loaders have loaded their files
InitRoles ==
    /\ matching = NoCall
    /\ substitution = NoCall
    /\ tree = NoCall
    /\ role_loader = RoleLoader(InitialRoleFile)
    /\ assembly_loader = AssemblyLoader(<<<<ReviewTemplate, ArticleTemplate>>>>)

\* No ResultAggregator call has been made, and no set has been iterated.
Init ==
    /\ InitCoordinator
    /\ aggregation = NoCall
    /\ validation = NoCall
    /\ set_order = <<>>
    /\ InitRoles

(***************************************************************************)
(* Spec: the coordinator with two execute_assembly coroutines that may     *)
(* overlap, agents registered and unregistered at any time.                *)
(***************************************************************************)
PoolAgents == {"o1", "o2"}

DraftStep == Step("writer", "draft")

BuildStep == Step("coder", "build")

Assemblies ==
    {Assembly("article", <<writer, coder>>,
              Workflow(<<DraftStep, BuildStep>>, FALSE, "stop"), {"writer_draft"}),
     Assembly("patch", <<coder>>,
              Workflow(<<BuildStep, NotADict>>, FALSE, "stop"), {}),
     Assembly("chores", <<helper>>,
              Workflow(<<DraftStep>>, FALSE, "continue"), {}),
     Assembly("review", <<coder, lead>>,
              Workflow(<<BuildStep, NotADict>>, TRUE, "continue"), {"coder_review"})}

Next ==
    \/ \E agent \in PoolAgents : register_agent(agent)
    \/ \E agent \in PoolAgents : unregister_agent(Agent[agent].agent_id)
    \/ \E e \in Execs, assembly \in Assemblies, context \in Contexts :
          execute_assembly(e, assembly, context)
    \/ \E e \in Execs : StepDone(e)
    \/ \E e \in Execs : \E i \in 1..Len(execs[e].tasks) : TaskStart(e, i)
    \/ \E e \in Execs : \E i \in 1..Len(execs[e].tasks) : TaskDone(e, i)
    \/ \E e \in Execs : GatherDone(e)

Spec == Init /\ [][Next]_vars

(***************************************************************************)
(* SpecExec: one execute_assembly call over every workflow of at most      *)
(* MaxSteps steps, either mode, every error_handling value.                *)
(***************************************************************************)
StepCatalog == {DraftStep, BuildStep, NotADict}

ExecAssemblies ==
    {Assembly("assembly", roles, Workflow(steps, parallel, policy), required) :
        roles \in {<<writer, coder>>, <<coder>>, <<helper>>},
        steps \in SeqsUpTo(StepCatalog, MaxSteps),
        parallel \in BOOLEAN,
        policy \in {"stop", "continue", "retry"},
        required \in {{}, {"writer_draft"}}}

NextExec ==
    \/ \E agent \in PoolAgents : register_agent(agent)
    \/ \E agent \in PoolAgents : unregister_agent(Agent[agent].agent_id)
    \/ \E assembly \in ExecAssemblies :
          execute_assembly("e1", assembly, ExecutionContext("t1"))
    \/ StepDone("e1")
    \/ \E i \in 1..Len(execs["e1"].tasks) : TaskStart("e1", i)
    \/ \E i \in 1..Len(execs["e1"].tasks) : TaskDone("e1", i)
    \/ GatherDone("e1")

SpecExec == Init /\ [][NextExec]_vars

(***************************************************************************)
(* SpecAssign: one execute_assembly call over every role list of at most   *)
(* MaxRoles roles of the catalogue and every pool of three agents the      *)
(* coordinator can hold.                                                   *)
(***************************************************************************)
AssignAgents == {"o1", "o2", "o3"}

AssignAssemblies ==
    {Assembly("assembly", roles, Workflow(<<DraftStep>>, FALSE, "stop"), {}) :
        roles \in SeqsUpTo(RoleCatalog, MaxRoles)}

NextAssign ==
    \/ \E agent \in AssignAgents : register_agent(agent)
    \/ \E agent \in AssignAgents : unregister_agent(Agent[agent].agent_id)
    \/ \E assembly \in AssignAssemblies :
          execute_assembly("e1", assembly, ExecutionContext("t1"))
    \/ StepDone("e1")

SpecAssign == Init /\ [][NextAssign]_vars

(***************************************************************************)
(* Properties.                                                             *)
(***************************************************************************)
Running(e) == execs[e].pc \in {"step", "gather"}

Returned(e) == execs[e].pc = "returned"

\* the step of execute_assembly that runs _assign_roles
Called(e) == execs[e].pc = "idle" /\ execs'[e].pc # "idle"

(***************************************************************************)
(* SpecAgg: an aggregate call over every list of at most MaxOutputs agent  *)
(* outputs and every strategy, and the same call made again.  The i-th     *)
(* output of a list comes from agent a<i>.                                 *)
(***************************************************************************)
X == PyStr("x")

Y == PyStr("y")

IntOne == PyInt("1")

StrOne == PyStr("1")

Dict1(k, v) == DictSet(EmptyDict, k, v)

Dict2(k1, v1, k2, v2) == DictSet(Dict1(k1, v1), k2, v2)

\* output_data and confidence (in hundredths) of the outputs agents hand in;
\* the last three are not valid
OutputCatalog ==
    {[output_data |-> Dict1("summary", X), confidence |-> 90],
     [output_data |-> Dict1("summary", X), confidence |-> 80],
     [output_data |-> Dict1("summary", Y), confidence |-> 50],
     [output_data |-> Dict2("plan", X, "budget", X), confidence |-> 90],
     [output_data |-> Dict2("plan", Y, "budget", X), confidence |-> 80],
     [output_data |-> Dict2("summary", IntOne, "plan", Y), confidence |-> 70],
     [output_data |-> Dict1("summary", StrOne), confidence |-> 100],
     [output_data |-> EmptyDict, confidence |-> 90],
     [output_data |-> Dict2("summary", Y, "budget", Y), confidence |-> 150],
     [output_data |-> Dict1("plan", X), confidence |-> -10]}

AgentId(i) == "a" \o ToString(i)

AgentOutputLists ==
    {[i \in 1..Len(s) |-> AgentOutput(AgentId(i), s[i].output_data, s[i].confidence)] :
        s \in SeqsUpTo(OutputCatalog, MaxOutputs)}

\* (the arguments are enumerated only while the first call is still to be made)
NextAgg ==
    \/ /\ ~aggregation.called
       /\ \E agent_outputs \in AgentOutputLists, strategy \in AggregationStrategy :
              aggregate(agent_outputs, strategy)
    \/ aggregate_again

SpecAgg == Init /\ [][NextAgg]_vars

(***************************************************************************)
(* SpecValidate: one validate_result call over results with any subset of  *)
(* the keys, confidences around the thresholds and at most MaxConflicts    *)
(* conflicts, and over requirements with or without each of their keys.    *)
(***************************************************************************)
MaxConflicts == 4   \* longest conflict list of a validated result (SpecValidate)
MaxRequired == 2    \* longest required_outputs list (SpecValidate)

Confidences == {Frac(0, 1), Frac(1, 2), Frac(2, 3), Frac(7, 10), Frac(3, 4), Frac(1, 1)}

AConflict == [key |-> "plan", values |-> <<X, Y>>, agents |-> <<"a1", "a2">>]

ResultCatalog ==
    {AggregatedResult([k \in present |-> X], <<"a1", "a2">>, confidence, "merge",
                      [i \in 1..n |-> AConflict], Dict1("num_outputs", 2)) :
        present \in SUBSET Keys, confidence \in Confidences, n \in 0..MaxConflicts}

\* an optional entry of a dict: <<>> when the key is absent, <<value>> otherwise
Optional(values) == {<<>>} \cup {<<v>> : v \in values}

\* the dict with the keys that were given
Requirements(required_outputs, max_conflicts, min_confidence) ==
    LET given == [required_outputs |-> required_outputs, max_conflicts |-> max_conflicts,
                  min_confidence |-> min_confidence]
    IN  [k \in {x \in DOMAIN given : given[x] # <<>>} |-> given[k][1]]

RequirementsCatalog ==
    {Requirements(required_outputs, max_conflicts, min_confidence) :
        required_outputs \in Optional(SeqsUpTo(Keys, MaxRequired)),
        max_conflicts \in Optional({0, 1, DefaultMaxConflicts + 2}),
        min_confidence \in Optional({Frac(1, 2), Frac(1, 1)})}

\* (the arguments are enumerated only while the call is still to be made)
NextValidate ==
    /\ ~validation.called
    /\ \E result \in ResultCatalog, requirements \in RequirementsCatalog :
           validate_result(result, requirements)

SpecValidate == Init /\ [][NextValidate]_vars

Agents(mapping) == {mapping[r] : r \in DOMAIN mapping}

\* C1: in the mapping _assign_roles returns, no agent is the value of two
\* different role names.
C1_NoAgentForTwoRoles ==
    \A e \in Execs :
        \A r1, r2 \in DOMAIN execs[e].role_assignments :
            r1 # r2 => execs[e].role_assignments[r1] # execs[e].role_assignments[r2]

\* C1 witness: two roles are mapped, and the agent of one of them could have
\* performed the other one too.
C1_Witness ==
    \E e \in Execs :
        \E r1, r2 \in RoleCatalog :
            /\ r1.name # r2.name
            /\ {r1.name, r2.name} \subseteq DOMAIN execs[e].role_assignments
            /\ can_perform_role(execs[e].role_assignments[r1.name], r2)
            /\ OverlapScore(execs[e].role_assignments[r1.name], r2) > 0

\* a sequential execution under "stop" that ended in a step's exception
StopFailure(e) ==
    /\ Returned(e)
    /\ ~execs[e].assembly.workflow.parallel_execution
    /\ execs[e].assembly.workflow.error_handling = "stop"
    /\ execs[e].error = ErrStep

C3_AlwaysReturnsTerminalResult ==
    \A e \in Execs :
        /\ execs[e].pc \in {"idle", "step", "gather", "returned"}
        /\ Returned(e) => execs[e].result.status \in {"completed", "failed"}
        /\ execs[e].error # None =>
              /\ Returned(e)
              /\ execs[e].result.status = "failed"
              /\ execs[e].result.error_message = execs[e].error

\* C3 witness: a step's exception under "stop" in parallel mode, turned into a
\* failed result.
C3_Witness ==
    \E e \in Execs :
        /\ Returned(e)
        /\ execs[e].assembly.workflow.parallel_execution
        /\ execs[e].error = ErrStep
        /\ execs[e].result.status = "failed"

\* no other call has used this call's task id
DistinctTaskId(e) ==
    \A f \in Execs \ {e} :
        execs[f].pc = "idle" \/ execs[f].context.task_id # execs[e].context.task_id

\* C4: for executions with distinct task ids, the task id is in the registry,
\* mapped to the assembly, while execute_assembly runs, and is absent once it
\* has returned; the cleanup of one execution leaves the other's entry.
C4_RegisteredWhileRunning ==
    \A e \in Execs :
        DistinctTaskId(e) =>
            /\ Running(e) =>
                  /\ execs[e].context.task_id \in DOMAIN active_assemblies
                  /\ active_assemblies[execs[e].context.task_id] = execs[e].assembly
            /\ Returned(e) => execs[e].context.task_id \notin DOMAIN active_assemblies

\* C4 witness: one execution has returned through an exception while the
\* other, under another task id, is still suspended in a step.
C4_Witness ==
    \E e, f \in Execs :
        /\ Returned(e)
        /\ execs[e].error # None
        /\ Running(f)
        /\ execs[f].context.task_id # execs[e].context.task_id

\* C5 as claimed: every execute_assembly call appends the result it returns
\* to the history, exactly once: the history has one entry per returned
\* execution, and every returned result is in it.
C5_HistoryHoldsEveryResult ==
    /\ Len(execution_history) = Cardinality({e \in Execs : Returned(e)})
    /\ \A e \in Execs :
          Returned(e) => execs[e].result \in Range(execution_history)

\* C6 as claimed: role assignment maps a role only to an agent whose status
\* is "available" when the assignment starts.
C6_OnlyAvailableAgentsAssigned ==
    [][\A e \in Execs :
          Called(e) =>
              \A r \in DOMAIN execs'[e].role_assignments :
                  agents[execs'[e].role_assignments[r]].status = "available"]_vars

\* C7 as claimed: while two execute_assembly invocations overlap (both task
\* ids are in the registry), no agent is in both role-to-agent mappings.
C7_NoAgentInTwoRunningExecutions ==
    \A e, f \in Execs :
        /\ e # f
        /\ Running(e)
        /\ Running(f)
        /\ {execs[e].context.task_id, execs[f].context.task_id}
              \subseteq DOMAIN active_assemblies
        /\ execs[e].context.task_id # execs[f].context.task_id
        => Agents(execs[e].role_assignments) \cap Agents(execs[f].role_assignments) = {}

\* C8 as claimed: a role with an empty capability list that is reached while
\* an agent of the pool is still unconsumed (the pool holds at least as many
\* agents as roles up to this one) is in the returned mapping.
C8_EmptyRoleAssigned ==
    [][\A e \in Execs :
          Called(e) =>
              \A i \in 1..Len(execs'[e].assembly.roles) :
                  /\ execs'[e].assembly.roles[i].capabilities = <<>>
                  /\ Len(available_agents) >= i
                  => execs'[e].assembly.roles[i].name
                        \in DOMAIN execs'[e].role_assignments]_vars

(***************************************************************************)
(* The greedy reference assignment of C9: roles in list order, each to the *)
(* unconsumed agent of the largest positive overlap, the earliest of the   *)
(* pool on a tie.  With eligible_only, only agents that can perform the    *)
(* role are candidates.                                                    *)
(***************************************************************************)
GreedyPick(role, pool, consumed, eligible_only) ==
    LET candidates == {i \in 1..Len(pool) :
                          /\ pool[i] \notin consumed
                          /\ OverlapScore(pool[i], role) > 0
                          /\ eligible_only => can_perform_role(pool[i], role)}
    IN  IF candidates = {} THEN None
        ELSE pool[CHOOSE i \in candidates :
                     \A j \in candidates :
                        \/ OverlapScore(pool[i], role) > OverlapScore(pool[j], role)
                        \/ /\ OverlapScore(pool[i], role) = OverlapScore(pool[j], role)
                           /\ i <= j]

RECURSIVE Greedy(_, _, _, _, _, _)
Greedy(roles, i, pool, consumed, mapping, eligible_only) ==
    IF i > Len(roles) THEN mapping
    ELSE LET pick == GreedyPick(roles[i], pool, consumed, eligible_only)
         IN  IF pick = None
             THEN Greedy(roles, i + 1, pool, consumed, mapping, eligible_only)
             ELSE Greedy(roles, i + 1, pool, consumed \cup {pick},
                         DictSet(mapping, roles[i].name, pick), eligible_only)

\* C9 as claimed: the mapping of _assign_roles is the greedy reference
\* assignment by direct-overlap count alone.
C9_GreedyByOverlap ==
    [][\A e \in Execs :
          Called(e) =>
              execs'[e].role_assignments =
                  Greedy(execs'[e].assembly.roles, 1, available_agents, {}, EmptyDict,
                         FALSE)]_vars

\* C9 as amended: the mapping of _assign_roles is the greedy reference
\* assignment by direct-overlap count among the unconsumed agents that can
\* perform the role (that hold each of its first three capabilities).
C9_GreedyAmongEligible ==
    [][\A e \in Execs :
          Called(e) =>
              execs'[e].role_assignments =
                  Greedy(execs'[e].assembly.roles, 1, available_agents, {}, EmptyDict,
                         TRUE)]_vars

\* C9 witness: roles [writer, coder] over a pool with a1 before a2 gave
\* writer -> a2 and coder -> a1.
C9_Witness ==
    \E e \in Execs :
        /\ execs[e].assembly.roles = <<writer, coder>>
        /\ DOMAIN execs[e].role_assignments = {"writer", "coder"}
        /\ execs[e].role_assignments["writer"] = "o2"
        /\ execs[e].role_assignments["coder"] = "o1"

Admissible(output) ==
    /\ DOMAIN output.output_data # {}
    /\ 0 <= output.confidence
    /\ output.confidence <= 100

IdsOf(outputs) == {outputs[i].agent_id : i \in 1..Len(outputs)}

IsEmptyResult(result) ==
    /\ result.outputs = EmptyDict
    /\ result.contributing_agents = <<>>
    /\ FracEq(result.confidence, Frac(0, 1))
    /\ result.conflicts = <<>>

\* C11: aggregate drops every output whose map is empty or whose confidence
\* is outside [0, 1] before any strategy runs: only the other agents are
\* contributors, the result is the one aggregate gives for the list without
\* the dropped outputs, and when nothing is left the result is the empty
\* result (no outputs, no contributors, confidence 0, no conflicts) under
\* every strategy.
C11_InvalidOutputsFiltered ==
    aggregation.called =>
        LET kept == SelectSeq(aggregation.agent_outputs, Admissible)
            result == aggregation.result
        IN  /\ Range(result.contributing_agents) \subseteq IdsOf(kept)
            /\ result = Aggregate(kept, aggregation.strategy, set_order).result
            /\ (kept = <<>>) => IsEmptyResult(result)

\* C11 witness: a list with an empty map, a confidence above 1 and an
\* admissible output was aggregated, and the admissible one contributed.
C11_Witness ==
    /\ aggregation.called
    /\ \E i, j, k \in 1..Len(aggregation.agent_outputs) :
           /\ aggregation.agent_outputs[i].output_data = EmptyDict
           /\ aggregation.agent_outputs[j].confidence > 100
           /\ DOMAIN aggregation.agent_outputs[j].output_data # {}
           /\ Admissible(aggregation.agent_outputs[k])
           /\ aggregation.result.contributing_agents
                  = <<aggregation.agent_outputs[k].agent_id>>

\* C11 witness of the empty case: nothing admissible was handed in.
C11_NothingValid ==
    /\ aggregation.called
    /\ aggregation.agent_outputs # <<>>
    /\ \A i \in 1..Len(aggregation.agent_outputs) :
           ~Admissible(aggregation.agent_outputs[i])
    /\ IsEmptyResult(aggregation.result)

\* the admissible outputs of the aggregate call
Contributors == SelectSeq(aggregation.agent_outputs, Admissible)

Aggregated(strategy) == aggregation.called /\ aggregation.strategy = strategy

PairwiseDisjoint(outputs) ==
    \A i, j \in 1..Len(outputs) :
        i # j => DOMAIN outputs[i].output_data \cap DOMAIN outputs[j].output_data = {}

\* C12: a MERGE over contributors whose maps have pairwise disjoint key sets
\* records no conflict, and its output map is the union of their maps.
C12_MergeOfDisjointMaps ==
    (Aggregated("merge") /\ PairwiseDisjoint(Contributors)) =>
        /\ aggregation.result.conflicts = <<>>
        /\ DOMAIN aggregation.result.outputs = all_keys(Contributors)
        /\ \A i \in 1..Len(Contributors) :
               \A key \in DOMAIN Contributors[i].output_data :
                   aggregation.result.outputs[key] = Contributors[i].output_data[key]

\* C12 witness: two contributors with disjoint, non-empty maps were merged.
C12_Witness ==
    /\ Aggregated("merge")
    /\ Len(Contributors) >= 2
    /\ PairwiseDisjoint(Contributors)
    /\ Cardinality(DOMAIN aggregation.result.outputs) = Cardinality(Keys)

\* the writes of a MERGE in the order they are made: contributor by
\* contributor, each map in the order of its items
RECURSIVE WritesFrom(_, _)
WritesFrom(outputs, i) ==
    IF i > Len(outputs) THEN <<>>
    ELSE LET items == Items(outputs[i].output_data)
         IN  [j \in 1..Len(items) |-> [writer |-> i, key |-> items[j]]]
                 \o WritesFrom(outputs, i + 1)

\* the contributors listed before the writer of w that have w's key
EarlierWriters(outputs, w) ==
    {j \in 1..(w.writer - 1) : w.key \in DOMAIN outputs[j].output_data}

Least(S) == CHOOSE x \in S : \A y \in S : x <= y

Greatest(S) == CHOOSE x \in S : \A y \in S : y <= x

\* C13 as claimed: in a MERGE the last-listed contributor's value wins for
\* every key, and every write of a key that an earlier contributor already
\* wrote is recorded as one conflict entry with the key, the first value ever
\* written for the key and the new value, and the ids of the two agents that
\* wrote those values.
C13_EveryCollisionAgainstFirstValue ==
    Aggregated("merge") =>
        LET outputs == Contributors
            collisions == SelectSeq(WritesFrom(outputs, 1),
                                    LAMBDA w : EarlierWriters(outputs, w) # {})
            entry(w) ==
                LET first == Least(EarlierWriters(outputs, w))
                IN  [key |-> w.key,
                     values |-> <<outputs[first].output_data[w.key],
                                  outputs[w.writer].output_data[w.key]>>,
                     agents |-> <<outputs[first].agent_id, outputs[w.writer].agent_id>>]
        IN  /\ \A key \in all_keys(outputs) :
                   LET last == Greatest({i \in 1..Len(outputs) :
                                            key \in DOMAIN outputs[i].output_data})
                   IN  aggregation.result.outputs[key] = outputs[last].output_data[key]
            /\ aggregation.result.conflicts
                   = [n \in 1..Len(collisions) |-> entry(collisions[n])]

\* C13 as the code has it: the last-listed contributor's value wins for
\* every key; a write is recorded as a conflict only when an earlier
\* contributor wrote the key and the value it replaces (the one written
\* last before it) is a different value; the entry holds the key, the
\* replaced value and the new value, and the ids of the first listed
\* contributor whose map has the replaced value for the key and of the
\* writer.
C13_ChangingWritesAgainstReplacedValue ==
    Aggregated("merge") =>
        LET outputs == Contributors
            replaced(w) == outputs[Greatest(EarlierWriters(outputs, w))].output_data[w.key]
            changes == SelectSeq(WritesFrom(outputs, 1),
                                 LAMBDA w : /\ EarlierWriters(outputs, w) # {}
                                            /\ replaced(w) # outputs[w.writer].output_data[w.key])
            entry(w) ==
                LET holder == Least({j \in 1..Len(outputs) :
                                        /\ w.key \in DOMAIN outputs[j].output_data
                                        /\ outputs[j].output_data[w.key] = replaced(w)})
                IN  [key |-> w.key,
                     values |-> <<replaced(w), outputs[w.writer].output_data[w.key]>>,
                     agents |-> <<outputs[holder].agent_id, outputs[w.writer].agent_id>>]
        IN  /\ \A key \in all_keys(outputs) :
                   LET last == Greatest({i \in 1..Len(outputs) :
                                            key \in DOMAIN outputs[i].output_data})
                   IN  aggregation.result.outputs[key] = outputs[last].output_data[key]
            /\ aggregation.result.conflicts
                   = [n \in 1..Len(changes) |-> entry(changes[n])]

\* C13 witness: three contributors wrote three different values for one key,
\* and the second conflict entry holds the second value, not the first.
C13_Witness ==
    /\ Aggregated("merge")
    /\ Len(aggregation.result.conflicts) = 2
    /\ aggregation.result.conflicts[1].key = aggregation.result.conflicts[2].key
    /\ aggregation.result.conflicts[2].values[1] = aggregation.result.conflicts[1].values[2]
    /\ aggregation.result.conflicts[2].values[1] # aggregation.result.conflicts[1].values[1]

\* the number of contributors whose value for key has the text
VotesFor(outputs, key, text) ==
    Cardinality({i \in 1..Len(outputs) :
                    /\ key \in DOMAIN outputs[i].output_data
                    /\ str(outputs[i].output_data[key]) = text})

\* the texts of the values the contributors have for key
VotedTexts(outputs, key) ==
    {str(outputs[i].output_data[key]) :
        i \in {j \in 1..Len(outputs) : key \in DOMAIN outputs[j].output_data}}

\* the texts with the greatest number of votes for key
TopTexts(outputs, key) ==
    {t \in VotedTexts(outputs, key) :
        \A u \in VotedTexts(outputs, key) :
            VotesFor(outputs, key, u) <= VotesFor(outputs, key, t)}

\* the first contributor whose value for key has the text
FirstVoter(outputs, key, text) ==
    Least({i \in 1..Len(outputs) : /\ key \in DOMAIN outputs[i].output_data
                                   /\ str(outputs[i].output_data[key]) = text})

ConflictsOn(key) ==
    SelectSeq(aggregation.result.conflicts, LAMBDA c : c.key = key)

ScenarioA ==
    /\ Len(Contributors) = 3
    /\ \A i \in 1..3 : DOMAIN Contributors[i].output_data = {"summary"}
    /\ Contributors[1].output_data["summary"] = X
    /\ Contributors[2].output_data["summary"] = X
    /\ Contributors[3].output_data["summary"] = Y

\* C14: in a VOTE, for every key the winning value has at least as many
\* votes as every other value contributed for the key; when several values
\* tie at the top, the tied value met first in contributor order wins and
\* one conflict entry is recorded for the key, listing the tied values and
\* their vote counts; a key with a single top value has no conflict entry.
\* Contributors {summary: x}, {summary: x}, {summary: y} give the winner x
\* and the confidence 2/3.
C14_VoteWinnerAndTies ==
    Aggregated("vote") =>
        /\ \A key \in all_keys(Contributors) :
               LET winner == str(aggregation.result.outputs[key])
                   top == TopTexts(Contributors, key)
                   entries == ConflictsOn(key)
               IN  /\ winner \in top
                   /\ \A t \in top : FirstVoter(Contributors, key, winner)
                                         <= FirstVoter(Contributors, key, t)
                   /\ IF Cardinality(top) > 1
                      THEN /\ Len(entries) = 1
                           /\ {str(v) : v \in Range(entries[1].values)} = top
                           /\ Len(entries[1].values) = Cardinality(top)
                           /\ Len(entries[1].votes) = Cardinality(top)
                           /\ \A n \in 1..Len(entries[1].votes) :
                                  entries[1].votes[n]
                                      = VotesFor(Contributors, key, str(entries[1].values[n]))
                      ELSE entries = <<>>
        /\ ScenarioA =>
               /\ aggregation.result.outputs["summary"] = X
               /\ FracEq(aggregation.result.confidence, Frac(2, 3))

\* C14 witness: three contributors gave three different values for a key.
C14_ThreeWayTie ==
    /\ Aggregated("vote")
    /\ \E key \in all_keys(Contributors) :
           /\ Cardinality(TopTexts(Contributors, key)) = 3
           /\ Len(ConflictsOn(key)) = 1
           /\ Len(ConflictsOn(key)[1].values) = 2

\* C15: in a CONSENSUS over any number of contributors, every key of the
\* result's output map has the same value in every contributor's map that
\* has the key, and that value is the one in the result.
C15_ConsensusKeysAgreeEverywhere ==
    Aggregated("consensus") =>
        \A key \in DOMAIN aggregation.result.outputs :
            \A i \in 1..Len(Contributors) :
                key \in DOMAIN Contributors[i].output_data =>
                    Contributors[i].output_data[key] = aggregation.result.outputs[key]

\* C15 witness: three contributors, a key all of them have with one value is
\* in the result, and another key was disputed.
C15_Witness ==
    /\ Aggregated("consensus")
    /\ Len(Contributors) = 3
    /\ aggregation.result.conflicts # <<>>
    /\ \E key \in DOMAIN aggregation.result.outputs :
           \A i \in 1..3 : key \in DOMAIN Contributors[i].output_data

\* the keys of the first contributor for which no later contributor has
\* another value
Uncontradicted(outputs) ==
    {key \in DOMAIN outputs[1].output_data :
        \A i \in 2..Len(outputs) :
            key \in DOMAIN outputs[i].output_data =>
                outputs[i].output_data[key] = outputs[1].output_data[key]}

ScenarioD ==
    /\ Len(Contributors) = 2
    /\ Contributors[1].output_data = Dict2("plan", X, "budget", X)
    /\ Contributors[2].output_data = Dict2("plan", Y, "budget", X)

\* C16: a CONSENSUS returns exactly the keys of the first contributor's map
\* that no later contributor contradicts, with one conflict entry for each
\* removed key and none for any other key, and its confidence is the number
\* of keys of the result over the number of keys of all contributors; two
\* contributors that disagree on plan and agree on budget give {budget},
\* one conflict for plan and the confidence 1/2.
C16_ConsensusKeysConflictsConfidence ==
    (Aggregated("consensus") /\ Contributors # <<>>) =>
        LET result == aggregation.result
            removed == DOMAIN Contributors[1].output_data \ DOMAIN result.outputs
        IN  /\ DOMAIN result.outputs = Uncontradicted(Contributors)
            /\ \A key \in DOMAIN result.outputs :
                   result.outputs[key] = Contributors[1].output_data[key]
            /\ \A key \in removed : Len(ConflictsOn(key)) = 1
            /\ {result.conflicts[n].key : n \in 1..Len(result.conflicts)} = removed
            /\ FracEq(result.confidence,
                      Frac(Cardinality(DOMAIN result.outputs),
                           Cardinality(all_keys(Contributors))))
            /\ ScenarioD =>
                   /\ result.outputs = Dict1("budget", X)
                   /\ Len(result.conflicts) = 1
                   /\ result.conflicts[1].key = "plan"
                   /\ FracEq(result.confidence, Frac(1, 2))

\* C16 witness: scenario D was aggregated.
C16_Witness ==
    /\ Aggregated("consensus")
    /\ ScenarioD
    /\ aggregation.result.outputs = Dict1("budget", X)

C17_ConsensusTwice ==
    /\ Aggregated("consensus")
    /\ aggregation.repeated
    /\ aggregation.result.conflicts # <<>>

(***************************************************************************)
(* Properties of validate_result.                                          *)
(***************************************************************************)
Validated == validation.called

\* the number of entries of a list with the given text
CountText(messages, text) == Len(SelectSeq(messages, LAMBDA m : m.text = text))

\* the thresholds in force: the given ones, or 3 and 0.7
MaxConflictsOf(requirements) ==
    IF "max_conflicts" \in DOMAIN requirements THEN requirements.max_conflicts ELSE 3

MinConfidenceOf(requirements) ==
    IF "min_confidence" \in DOMAIN requirements THEN requirements.min_confidence
    ELSE Frac(7, 10)

\* the entries of required_outputs that are not keys of the result
MissingRequired(result, requirements) ==
    IF "required_outputs" \in DOMAIN requirements
    THEN SelectSeq(requirements.required_outputs, LAMBDA key : key \notin DOMAIN result.outputs)
    ELSE <<>>

\* C18: validate_result returns a ValidationResult with one error for each
\* entry of required_outputs that is not a key of the result, one error when the
\* confidence is below min_confidence (0.7 when not given), and for a
\* non-empty conflict list one error when there are more conflicts than
\* max_conflicts (3 when not given) and one warning otherwise, never both;
\* is_valid is true exactly when there is no error.
C18_ErrorsWarningsValidity ==
    Validated =>
        LET result == validation.result
            requirements == validation.requirements
            returned == validation.returned
            missing == MissingRequired(result, requirements)
            low == FracLess(result.confidence, MinConfidenceOf(requirements))
            many == Len(result.conflicts) > MaxConflictsOf(requirements)
            some == Len(result.conflicts) > 0
        IN  /\ CountText(returned.errors, "Missing required output") = Len(missing)
            /\ \A key \in Range(missing) :
                   Len(SelectSeq(returned.errors,
                                 LAMBDA m : m.text = "Missing required output" /\ m.key = key))
                       = Len(SelectSeq(missing, LAMBDA k : k = key))
            /\ CountText(returned.errors, "Confidence below threshold")
                   = (IF low THEN 1 ELSE 0)
            /\ CountText(returned.errors, "Too many conflicts")
                   = (IF some /\ many THEN 1 ELSE 0)
            /\ CountText(returned.warnings, "Found conflicts")
                   = (IF some /\ ~many THEN 1 ELSE 0)
            /\ Len(returned.errors)
                   = Len(missing) + (IF low THEN 1 ELSE 0) + (IF some /\ many THEN 1 ELSE 0)
            /\ Len(returned.warnings) = (IF some /\ ~many THEN 1 ELSE 0)
            /\ returned.is_valid <=> (returned.errors = <<>>)

\* C18 witness: a result that lacks a required key, has more conflicts than
\* the default maximum and a confidence below the default minimum was
\* validated with requirements that give neither threshold.
C18_Witness ==
    /\ Validated
    /\ DOMAIN validation.requirements = {"required_outputs"}
    /\ MissingRequired(validation.result, validation.requirements) # <<>>
    /\ Len(validation.result.conflicts) > 3
    /\ FracLess(validation.result.confidence, Frac(7, 10))
    /\ Len(validation.returned.errors)
           = Len(MissingRequired(validation.result, validation.requirements)) + 2
    /\ ~validation.returned.is_valid

\* the requirements with one more entry in required_outputs
WithRequired(requirements, key) ==
    DictSet(requirements, "required_outputs",
            Append(Get(requirements, "required_outputs", <<>>), key))

\* C19: the quality score is confidence - 0.1 * |errors| - 0.05 * |warnings|,
\* clamped to [0, 1]; and for the same result and thresholds, one more
\* required key that the result lacks never gives a greater quality score.
C19_QualityFormulaAndMonotone ==
    Validated =>
        LET confidence == validation.result.confidence
            quality == validation.returned.quality_score
            penalties == 2 * Len(validation.returned.errors)
                             + Len(validation.returned.warnings)
            n == 20 * confidence.n - penalties * confidence.d
            d == 20 * confidence.d
        IN  /\ quality.d > 0
            /\ FracEq(quality, IF n < 0 THEN Frac(0, 1)
                               ELSE IF n > d THEN Frac(1, 1)
                               ELSE Frac(n, d))
            /\ \A key \in Keys \ DOMAIN validation.result.outputs :
                   ~FracLess(quality,
                             Validate(validation.result,
                                      WithRequired(validation.requirements, key)).quality_score)

\* C19 witness: a result with an error and a warning got a quality score
\* strictly between 0 and 1, and lacks a key that could be required as well.
C19_Witness ==
    /\ Validated
    /\ Len(validation.returned.errors) >= 1
    /\ Len(validation.returned.warnings) = 1
    /\ FracLess(Frac(0, 1), validation.returned.quality_score)
    /\ FracLess(validation.returned.quality_score, validation.result.confidence)
    /\ \E key \in Keys \ DOMAIN validation.result.outputs :
           FracLess(Validate(validation.result,
                             WithRequired(validation.requirements, key)).quality_score,
                    validation.returned.quality_score)

(***************************************************************************)
(* Properties of the sequential workflow under "continue" and "retry".     *)
(***************************************************************************)
\* a returned sequential execution whose workflow ran under a policy other
\* than "stop"
SequentialNonStop(e) ==
    /\ Returned(e)
    /\ DOMAIN execs[e].role_assignments # {}
    /\ ~execs[e].assembly.workflow.parallel_execution
    /\ execs[e].assembly.workflow.error_handling # "stop"

\* the steps of the execution that fail
FailingSteps(e) ==
    {i \in 1..Len(execs[e].assembly.workflow.steps) :
        ~execs[e].assembly.workflow.steps[i].is_dict}

\* the keys the steps that do not fail return
KeysOfOtherSteps(e) ==
    {execs[e].assembly.workflow.steps[i].role \o "_"
         \o execs[e].assembly.workflow.steps[i].action :
        i \in (1..Len(execs[e].assembly.workflow.steps)) \ FailingSteps(e)}

\* C20: in sequential mode under "continue" or "retry", a failing step is
\* attempted exactly once and adds no key to the merged outputs, every step
\* of the list is executed (once), and the workflow ends without an
\* exception: the result carries the merged outputs and no error message.
C20_FailingStepSkippedOnce ==
    \A e \in Execs :
        SequentialNonStop(e) =>
            /\ \A i \in 1..Len(execs[e].assembly.workflow.steps) : execs[e].attempts[i] = 1
            /\ DOMAIN execs[e].result.outputs = KeysOfOtherSteps(e)
            /\ execs[e].error = None
            /\ execs[e].result.error_message = None

\* C20 witness: under "retry", a failing step was followed by a step that
\* succeeded, and the result holds the later step's key.
C20_Witness ==
    \E e \in Execs :
        /\ SequentialNonStop(e)
        /\ execs[e].assembly.workflow.error_handling = "retry"
        /\ 1 \in FailingSteps(e)
        /\ Len(execs[e].assembly.workflow.steps) >= 2
        /\ 2 \notin FailingSteps(e)
        /\ execs[e].attempts[1] = 1
        /\ DOMAIN execs[e].result.outputs # {}

(***************************************************************************)
(* Properties of the parallel workflow, of the role-assignment stage, of   *)
(* the validation of the merged outputs and of the worker pool.            *)
(***************************************************************************)
\* a returned execution whose workflow ran in parallel mode
ParallelRan(e) ==
    /\ Returned(e)
    /\ DOMAIN execs[e].role_assignments # {}
    /\ execs[e].assembly.workflow.parallel_execution

\* C21: in parallel mode every step is started (once) and has run to its own
\* end, with its result or its exception, when the outcome of the workflow
\* is decided, and a step that does not fail has its result whatever its
\* siblings did; under "stop" a failed step makes the execution failed, and
\* under "continue" the merged map holds the keys of all the steps that
\* succeeded and of no other step.
C21_ParallelStepsAllComplete ==
    \A e \in Execs :
        ParallelRan(e) =>
            LET rec == execs[e]
                workflow == rec.assembly.workflow
            IN  /\ Len(rec.tasks) = Len(workflow.steps)
                /\ \A i \in 1..Len(workflow.steps) :
                       /\ rec.tasks[i].state = "done"
                       /\ rec.attempts[i] = 1
                       /\ i \in FailingSteps(e) => rec.tasks[i].exception = ErrStep
                       /\ i \notin FailingSteps(e) =>
                              /\ rec.tasks[i].exception = None
                              /\ DOMAIN rec.tasks[i].result
                                     = {workflow.steps[i].role \o "_" \o workflow.steps[i].action}
                /\ (workflow.error_handling = "stop" /\ FailingSteps(e) # {}) =>
                       /\ rec.result.status = "failed"
                       /\ rec.error = ErrStep
                /\ workflow.error_handling = "continue" =>
                       /\ rec.error = None
                       /\ DOMAIN rec.result.outputs = KeysOfOtherSteps(e)

\* C21 witness: under "stop" the first step failed, its sibling still ran to
\* its end and has its result, and the execution is failed.
C21_Witness ==
    \E e \in Execs :
        /\ ParallelRan(e)
        /\ execs[e].assembly.workflow.error_handling = "stop"
        /\ Len(execs[e].tasks) = 2
        /\ execs[e].tasks[1].exception = ErrStep
        /\ execs[e].tasks[2].exception = None
        /\ DOMAIN execs[e].tasks[2].result # {}
        /\ execs[e].result.status = "failed"

\* C21 witness under "continue": a step failed, its sibling's key is merged.
C21_ContinueWitness ==
    \E e \in Execs :
        /\ ParallelRan(e)
        /\ execs[e].assembly.workflow.error_handling = "continue"
        /\ FailingSteps(e) # {}
        /\ DOMAIN execs[e].result.outputs # {}

\* a returned execution that failed at the role-assignment stage: failed, with
\* the message of that stage, and no step of the workflow attempted
FailedAtAssignment(e) ==
    /\ execs[e].result.status = "failed"
    /\ execs[e].result.error_message = ErrNoRoles
    /\ \A i \in DOMAIN execs[e].attempts : execs[e].attempts[i] = 0

\* C22: execute_assembly fails at the role-assignment stage (status failed,
\* an error message, no step executed) exactly when the mapping is empty and
\* the assembly declares at least one role; with a non-empty mapping, even a
\* partial one, the workflow is executed, and an assembly without roles is
\* not failed for lack of assignments.
C22_FailsOnlyWhenRolesWereRequired ==
    \A e \in Execs :
        Returned(e) =>
            /\ FailedAtAssignment(e) <=>
                   (DOMAIN execs[e].role_assignments = {} /\ execs[e].assembly.roles # <<>>)
            /\ DOMAIN execs[e].role_assignments # {} =>
                   \A i \in DOMAIN execs[e].attempts : execs[e].attempts[i] = 1

\* C22 witness: an assembly that declares no role was failed at the
\* role-assignment stage.
C22_NoRolesFailed ==
    \E e \in Execs :
        /\ Returned(e)
        /\ execs[e].assembly.roles = <<>>
        /\ FailedAtAssignment(e)

\* a returned execution whose workflow ended without an exception
WorkflowFinished(e) ==
    /\ Returned(e)
    /\ DOMAIN execs[e].role_assignments # {}
    /\ execs[e].error = None

\* C23: when the workflow ends without an aborting failure, the result has
\* the merged outputs and the status completed exactly when every key of
\* success_criteria.required_outputs is a key of the merged map; otherwise
\* its status is failed and it has no error message.
C23_CompletedIffRequiredKeysPresent ==
    \A e \in Execs :
        WorkflowFinished(e) =>
            LET required == execs[e].assembly.success_criteria.required_outputs
                result == execs[e].result
            IN  /\ result.outputs = execs[e].outputs
                /\ result.status = "completed" <=> required \subseteq DOMAIN result.outputs
                /\ result.status # "completed" =>
                       /\ result.status = "failed"
                       /\ result.error_message = None

\* C23 witness: the workflow ended with outputs, a required key is not among
\* them, and the result is failed without an error message.
C23_Witness ==
    \E e \in Execs :
        /\ WorkflowFinished(e)
        /\ DOMAIN execs[e].result.outputs # {}
        /\ ~(execs[e].assembly.success_criteria.required_outputs
                 \subseteq DOMAIN execs[e].result.outputs)
        /\ execs[e].result.status = "failed"
        /\ execs[e].result.error_message = None

(***************************************************************************)
(* SpecPool: the pool under register_agent, unregister_agent and           *)
(* execute_assembly, with two Agent objects constructed with the same      *)
(* identifier (o1 and o4) and one with another.                            *)
(***************************************************************************)
PoolObjects == {"o1", "o2", "o4"}

PoolAssemblies ==
    {Assembly("patch", <<coder>>, Workflow(<<BuildStep>>, FALSE, "stop"), {}),
     Assembly("article", <<writer, coder>>,
              Workflow(<<DraftStep, BuildStep>>, FALSE, "stop"), {})}

NextPool ==
    \/ \E agent \in PoolObjects : register_agent(agent)
    \/ \E agent_id \in AgentIds : unregister_agent(agent_id)
    \/ \E assembly \in PoolAssemblies :
          execute_assembly("e1", assembly, ExecutionContext("t1"))
    \/ StepDone("e1")

SpecPool == Init /\ [][NextPool]_vars

(***************************************************************************)
(* SpecCapabilities: one call of the matcher, calculate_match_score over   *)
(* every two lists of at most MaxCapabilities capabilities of a few names  *)
(* of the table, or can_substitute over every two names of the table and   *)
(* one name the table does not have.                                       *)
(***************************************************************************)
MatchCapabilities == {"coding", "python", "data_analysis", "streaming"}

CapabilityNames ==
    DOMAIN CAPABILITY_DEFINITIONS
        \cup UNION {Range(CAPABILITY_DEFINITIONS[c].related_skills) :
                       c \in DOMAIN CAPABILITY_DEFINITIONS}
        \cup {"juggling"}

NextCapabilities ==
    \/ /\ ~matching.called
       /\ ~substitution.called
       /\ \E agent_capabilities \in SeqsUpTo(MatchCapabilities, MaxCapabilities),
             required_capabilities \in SeqsUpTo(MatchCapabilities, MaxCapabilities) :
             match_score(agent_capabilities, required_capabilities)
    \/ /\ ~matching.called
       /\ ~substitution.called
       /\ \E agent_capability \in CapabilityNames,
             required_capability \in CapabilityNames :
             substitute(agent_capability, required_capability)

SpecCapabilities == Init /\ [][NextCapabilities]_vars

(***************************************************************************)
(* SpecTree: one get_role_dependency_tree call on a loader whose table     *)
(* defines any of the roles r1 and r2, each with any list of at most       *)
(* MaxDependencies dependencies among r1, r2 and r3, a role no table       *)
(* defines.  The call is synchronous: once begun, its loop runs on.        *)
(***************************************************************************)
DefinableRoles == {"r1", "r2"}

DependencyNames == {"r1", "r2", "r3"}

DependencyTables ==
    UNION {{[role_id \in defined |->
                RoleDefinition(role_id, [dependencies |-> lists[role_id]])] :
               lists \in [defined -> SeqsUpTo(DependencyNames, MaxDependencies)]} :
              defined \in SUBSET DefinableRoles}

NextTree ==
    \/ /\ ~tree.called
       /\ \E roles \in DependencyTables, role_id \in DependencyNames :
             get_role_dependency_tree(roles, role_id)
    \/ TreeLoop

SpecTree == Init /\ [][NextTree]_vars /\ WF_vars(TreeLoop)

(***************************************************************************)
(* SpecLoaders: reloads of the two loaders over the files above, with      *)
(* readers that look definitions up at any time.                           *)
(***************************************************************************)
NextLoaders ==
    \/ RoleLoader_reload
    \/ ClearCategories
    \/ \E file \in RoleFiles : _load_definitions(file)
    \/ LoadRoleStep
    \/ LoadCategoriesStep
    \/ \E role_id \in {"writer", "coder", "lead"} : ReadRole(role_id)
    \/ AssemblyLoader_reload
    \/ \E dir \in TemplateDirs : _load_templates(dir)
    \/ LoadTemplateStep
    \/ \E name \in {"review", "article", "patch"} : ReadAssembly(name)

SpecLoaders == Init /\ [][NextLoaders]_vars

\* the steps of the execution that succeed and return the key
Emitters(e, key) ==
    {i \in (1..Len(execs[e].assembly.workflow.steps)) \ FailingSteps(e) :
        execs[e].assembly.workflow.steps[i].role \o "_"
            \o execs[e].assembly.workflow.steps[i].action = key}

\* C24: the merged output map is built by applying the results of the steps
\* that succeeded in the order of the step list, in sequential mode and in
\* parallel mode alike, whatever the order in which the parallel steps
\* ended: every key of the map was written last by the last-listed of the
\* successful steps that return it.
C24_MergedInStepListOrder ==
    \A e \in Execs :
        WorkflowFinished(e) =>
            /\ DOMAIN execs[e].writers = DOMAIN execs[e].result.outputs
            /\ \A key \in DOMAIN execs[e].result.outputs :
                   /\ Emitters(e, key) # {}
                   /\ execs[e].writers[key] = Greatest(Emitters(e, key))

\* C24 witness: two parallel steps returned the same key, and the second of
\* the list wrote it last.
C24_Witness ==
    \E e \in Execs :
        /\ WorkflowFinished(e)
        /\ execs[e].assembly.workflow.parallel_execution
        /\ \E key \in DOMAIN execs[e].result.outputs :
               /\ Emitters(e, key) = {1, 2}
               /\ execs[e].writers[key] = 2

\* C24 witness of the order of completion: the second parallel step has
\* ended while the first one is still running.
C24_SecondEndsFirst ==
    \E e \in Execs :
        /\ execs[e].pc = "gather"
        /\ Len(execs[e].tasks) = 2
        /\ execs[e].tasks[1].state = "sleeping"
        /\ execs[e].tasks[2].state = "done"
        /\ execs[e].assembly.workflow.steps[1] = execs[e].assembly.workflow.steps[2]

\* C28 as claimed: whatever register_agent, unregister_agent and
\* execute_assembly calls were made, the pool holds at most one agent per
\* agent identifier.
C28_OneAgentPerIdentifier ==
    \A i, j \in 1..Len(available_agents) :
        Agent[available_agents[i]].agent_id = Agent[available_agents[j]].agent_id
            => i = j

\* C28: the pool holds two Agent objects of one identifier, the first of
\* them assigned to a role when the second was registered.
C28_TwoEntriesForOneIdentifier ==
    /\ Len(available_agents) = 2
    /\ available_agents = <<"o1", "o4">>
    /\ agents["o1"].status = "assigned"
    /\ agents["o4"].status = "available"

\* the part of C28 the code keeps: unregister_agent leaves no agent of the
\* identifier in the pool
C28_UnregisterRemovesEveryEntry ==
    [][\A agent_id \in AgentIds :
          unregister_agent(agent_id) =>
              \A i \in 1..Len(available_agents') :
                  Agent[available_agents'[i]].agent_id # agent_id]_vars

\* capability x lists y among its related skills
Lists(x, y) ==
    /\ x \in DOMAIN CAPABILITY_DEFINITIONS
    /\ y \in Range(CAPABILITY_DEFINITIONS[x].related_skills)

\* one related-skill edge joins a and b, in either direction
RelatedTo(a, b) == Lists(a, b) \/ Lists(b, a)

\* the required capabilities the agent holds
DirectOf(held, required) == {c \in required : c \in held}

\* the required capabilities the agent does not hold and holds a related
\* capability for
RelatedOnlyOf(held, required) ==
    {c \in required : c \notin held /\ \E h \in held : RelatedTo(h, c)}

\* the score formula of C25: (direct + 0.5 x relatedOnly) / |requiredCaps|,
\* capped at 1, with direct and relatedOnly counted over the distinct
\* required capabilities and requiredCaps the requirement list
ClaimedScore(agent_capabilities, required_capabilities) ==
    LET held == Range(agent_capabilities)
        required == Range(required_capabilities)
        halves == 2 * Cardinality(DirectOf(held, required))
                      + Cardinality(RelatedOnlyOf(held, required))
    IN  IF halves > 2 * Len(required_capabilities)
        THEN Frac(1, 1)
        ELSE Frac(halves, 2 * Len(required_capabilities))

\* the part of C25 the code keeps: 1.0 for an empty requirement list, the
\* score formula otherwise, and a score in [0,1]
C25_ScoreFormula ==
    matching.called =>
        /\ matching.required_capabilities = <<>> => FracEq(matching.score, Frac(1, 1))
        /\ matching.required_capabilities # <<>> =>
               FracEq(matching.score,
                      ClaimedScore(matching.agent_capabilities,
                                   matching.required_capabilities))
        /\ ~FracLess(matching.score, Frac(0, 1))
        /\ ~FracLess(Frac(1, 1), matching.score)

\* C25 as claimed: calculate_match_score returns 1.0 for an empty
\* requirement list and the score formula otherwise, the score is in [0,1],
\* and it is 1.0 whenever the agent holds every required capability.
C25_MatchScore ==
    /\ C25_ScoreFormula
    /\ matching.called =>
           (Range(matching.required_capabilities) \subseteq Range(matching.agent_capabilities)
                => FracEq(matching.score, Frac(1, 1)))

\* C25: the agent holds the one capability a requirement list names twice,
\* and scores one half.
C25_DuplicateRequirement ==
    /\ matching.called
    /\ matching.agent_capabilities = <<"coding">>
    /\ matching.required_capabilities = <<"coding", "coding">>
    /\ FracEq(matching.score, Frac(1, 2))

\* the names one related-skill edge away from each name
Neighbours == [c \in CapabilityNames |-> {d \in CapabilityNames : RelatedTo(c, d)}]

RECURSIVE ReachFrom(_, _)
ReachFrom(reached, frontier) ==
    IF frontier \subseteq reached THEN reached
    ELSE ReachFrom(reached \cup frontier,
                   UNION {Neighbours[c] : c \in frontier})

\* the relation closure of b: the names reachable from b through one or
\* more related-skill edges taken in either direction
Closure == [b \in CapabilityNames |-> ReachFrom({}, Neighbours[b])]

\* C26 as claimed: can_substitute(a, b) is true exactly when a = b or a is
\* reachable from b through one or more related-skill edges, and it is
\* symmetric in its two arguments.
C26_SubstituteIffInClosure ==
    substitution.called =>
        /\ substitution.result <=>
               \/ substitution.agent_capability = substitution.required_capability
               \/ substitution.agent_capability
                      \in Closure[substitution.required_capability]
        /\ substitution.result
               = can_substitute(substitution.required_capability,
                                substitution.agent_capability)

\* C26 amended: can_substitute(a, b) is true exactly when a = b or one
\* related-skill edge joins a and b, b listing a or a listing b, and it is
\* symmetric in its two arguments.
C26_SubstituteIffRelated ==
    substitution.called =>
        /\ substitution.result <=>
               \/ substitution.agent_capability = substitution.required_capability
               \/ RelatedTo(substitution.agent_capability,
                            substitution.required_capability)
        /\ substitution.result
               = can_substitute(substitution.required_capability,
                                substitution.agent_capability)

\* C26 witness: coding substitutes for python, a name that has no entry of
\* its own and that coding lists.
C26_Witness ==
    /\ substitution.called
    /\ substitution.agent_capability = "coding"
    /\ substitution.required_capability = "python"
    /\ substitution.result

\* C26: data_analysis is two edges from coding, through python, and does
\* not substitute for it.
C26_TwoEdgesAway ==
    /\ substitution.called
    /\ substitution.agent_capability = "data_analysis"
    /\ substitution.required_capability = "coding"
    /\ ~RelatedTo("data_analysis", "coding")
    /\ "data_analysis" \in Closure["coding"]
    /\ ~substitution.result

\* the dependencies the table has for a name: none for an undefined role
DependenciesOf(roles, name) ==
    IF name \in DOMAIN roles THEN roles[name].dependencies ELSE <<>>

RECURSIVE ReachDependencies(_, _, _)
ReachDependencies(roles, reached, frontier) ==
    IF frontier \subseteq reached THEN reached
    ELSE ReachDependencies(roles, reached \cup frontier,
                           UNION {Range(DependenciesOf(roles, name)) : name \in frontier})

\* the names reachable from role_id through one or more dependency edges
ReachableFrom(roles, role_id) ==
    ReachDependencies(roles, {}, Range(DependenciesOf(roles, role_id)))

\* the role whose dependency list is the p-th to be followed: role_id
\* itself, then the entries of the result in their order
Followed(call, p) == IF p = 0 THEN call.role_id ELSE call.result[p]

\* the first followed role that lists the k-th entry of the result
DiscoveredBy(call, k) ==
    Least({p \in 0..Len(call.result) :
              call.result[k] \in Range(DependenciesOf(call.roles, Followed(call, p)))})

\* the first place of the k-th entry in the list of the role that
\* discovered it
DiscoveredAt(call, k) ==
    LET listed == DependenciesOf(call.roles, Followed(call, DiscoveredBy(call, k)))
    IN  Least({q \in 1..Len(listed) : listed[q] = call.result[k]})

\* breadth-first discovery order: an entry comes before another when an
\* earlier followed role lists it, or the same role lists it earlier
BreadthFirst(call) ==
    \A i, j \in 1..Len(call.result) :
        i < j =>
            \/ DiscoveredBy(call, i) < DiscoveredBy(call, j)
            \/ /\ DiscoveredBy(call, i) = DiscoveredBy(call, j)
               /\ DiscoveredAt(call, i) < DiscoveredAt(call, j)

\* the get_role_dependency_tree call has returned
TreeReturned == tree.called /\ tree.pc = "done"

\* C29: get_role_dependency_tree terminates for every dependency graph,
\* cyclic, self-referencing or naming undefined roles; for a known role_id
\* it returns every role id reachable through dependency edges exactly once,
\* in breadth-first discovery order, and for an unknown role_id it returns
\* the empty list.
C29_DependencyTreeTerminates ==
    /\ [](TreeReturned =>
             IF tree.role_id \in DOMAIN tree.roles
             THEN /\ Range(tree.result) = ReachableFrom(tree.roles, tree.role_id)
                  /\ Cardinality(Range(tree.result)) = Len(tree.result)
                  /\ BreadthFirst(tree)
             ELSE tree.result = <<>>)
    /\ (tree.called ~> TreeReturned)

\* C29 witness: the call returned for a role on a cycle that also depends
\* on a role no table defines; the result holds the role itself, once.
C29_Witness ==
    /\ TreeReturned
    /\ tree.role_id = "r1"
    /\ tree.roles = [r1 |-> RoleDefinition("r1", [dependencies |-> <<"r2", "r3">>]),
                     r2 |-> RoleDefinition("r2", [dependencies |-> <<"r1", "r2">>])]
    /\ tree.result = <<"r2", "r3", "r1">>

\* C29 witness of an unknown role_id: the call returned at once.
C29_UnknownRole ==
    /\ TreeReturned
    /\ tree.role_id \notin DOMAIN tree.roles
    /\ tree.roles # EmptyDict

\* every role of the file can be loaded
Loadable(file) ==
    /\ ~LoadRaises(file)
    /\ \A i \in 1..Len(RolesData(file.document[1])) :
           RolesData(file.document[1])[i][2] # <<>>

\* the complete role table a loadable file defines
CompleteRoleTable(file) ==
    LET items == RolesData(file.document[1])
    IN  [role_id \in {items[i][1] : i \in 1..Len(items)} |->
            RoleDefinition(role_id,
                           items[CHOOSE i \in 1..Len(items) : items[i][1] = role_id][2][1])]

\* the valid templates of a directory
ValidTemplates(template_files) ==
    {i \in 1..Len(template_files) :
        /\ template_files[i].raises = None
        /\ template_files[i].document # <<>>
        /\ ValidationErrors(AssemblyDefinition(template_files[i].document[1])) = <<>>}

\* the complete assembly table a templates directory defines
CompleteAssemblyTable(template_files) ==
    LET valid == ValidTemplates(template_files)
        named(i) == template_files[i].document[1].name
    IN  [name \in {named(i) : i \in valid} |->
            AssemblyDefinition(
                template_files[Greatest({i \in valid : named(i) = name})].document[1])]

\* the role tables a reader may be handed: the table the reload found, or
\* the complete table of the file the reload read
WholeRoleTables ==
    {role_loader.previous.roles}
        \cup (IF role_loader.file # <<>> /\ Loadable(role_loader.file[1])
              THEN {CompleteRoleTable(role_loader.file[1])}
              ELSE {})

\* the same for the assembly table
WholeAssemblyTables ==
    {assembly_loader.previous}
        \cup (IF assembly_loader.dir # <<>> /\ assembly_loader.dir[1] # <<>>
              THEN {CompleteAssemblyTable(assembly_loader.dir[1][1])}
              ELSE {})

\* C27 as claimed: reload is a whole-table replace; while a reload is in
\* progress and after a reload whose load failed, the role table and the
\* assembly table a reader looks definitions up in are each the complete
\* previous table or the complete new table, never an empty or partly
\* loaded one.
C27_WholeTableReplace ==
    /\ role_loader.roles \in WholeRoleTables
    /\ assembly_loader.assemblies \in WholeAssemblyTables

\* C27: reload has returned, the definitions file was not found, and the
\* reader that looked up a role of the previous table was handed None.
C27_EmptyTableAfterFailedLoad ==
    /\ role_loader.pc = "idle"
    /\ role_loader.file = <<File(FileNotFoundError, <<>>)>>
    /\ "writer" \in DOMAIN role_loader.previous.roles
    /\ role_loader.roles = EmptyDict
    /\ role_loader.seen = <<[role_id |-> "writer", role |-> <<>>]>>

\* C27: a reload that found every file in order ends with the complete new
\* tables.
C27_CompleteAfterGoodLoad ==
    /\ role_loader.pc = "idle" /\ role_loader.file # <<>>
           /\ Loadable(role_loader.file[1])
           => role_loader.roles = CompleteRoleTable(role_loader.file[1])
    /\ assembly_loader.pc = "idle" /\ assembly_loader.dir # <<>>
           /\ assembly_loader.dir[1] # <<>>
           => assembly_loader.assemblies
                  = CompleteAssemblyTable(assembly_loader.dir[1][1])

====
